---- MODULE Spec2Model ----
(***************************************************************************)
(* Verification model of conda-forge-feedstock-check-solvable.             *)
(*                                                                         *)
(* A requirement ("spec") string is modelled as the sequence of its        *)
(* space-separated tokens: "nanobind 1.9" is <<"nanobind", "1.9">>.        *)
(* A python list is a sequence, a python set is a set, None is the empty   *)
(* option <<>> and a present value x is the option <<x>>.                  *)
(***************************************************************************)
EXTENDS Integers, Sequences, FiniteSets, TLC

\* ------------------------------------------------------------------------
\* Bounds of the model
\* ------------------------------------------------------------------------
\* solve calls made on one solver object in the solver-level specification
MaxCalls == 2

\* .ci_support/*.yaml files of one feedstock
MaxVariants == 2

VARIABLES
    rxCache,    \* get_run_exports' lru_cache: file name -> cached record
    call,       \* the last solve call on the solver object and its outcome
    ncalls,     \* number of solve calls made so far
    inp,        \* the feedstock on disk and the arguments of is_recipe_solvable
    parent,     \* is_recipe_solvable: position and result
    w,          \* _is_recipe_solvable (in the worker or in process): position and locals
    pipe,       \* the Pipe from the worker to the parent
    hist,       \* history: solves made, stages visited, renders, timeout taken
    fx          \* the last call of a helper function: its arguments and outcome

svars == <<rxCache, call, ncalls, fx>>

dvars == <<inp, parent, w, pipe, hist>>

vars == <<rxCache, call, ncalls, inp, parent, w, pipe, hist, fx>>

\* ------------------------------------------------------------------------
\* Generic helpers
\* ------------------------------------------------------------------------
None == <<>>

Some(x) == <<x>>

Range(s) == {s[i] : i \in 1..Len(s)}

RECURSIVE SetToSeq(_)
\* list(set(...)): some list holding each element once; the order python
\* gives is fixed here to one canonical order
SetToSeq(S) ==
    IF S = {} THEN <<>>
    ELSE LET x == CHOOSE y \in S : TRUE IN <<x>> \o SetToSeq(S \ {x})

\* ------------------------------------------------------------------------
\* utils.py: constants
\* ------------------------------------------------------------------------
BucketNames == {"weak", "strong", "noarch", "strong_constrains", "weak_constrains"}

DEFAULT_RUN_EXPORTS == [k \in BucketNames |-> {}]

PROBLEMATIC_REQS == {"parquet-cpp"}

\* utils.py: the minor version of the newest glibc the virtual packages and
\* CONDA_OVERRIDE_GLIBC stand for
MAX_GLIBC_MINOR == 50

\* ------------------------------------------------------------------------
\* Spec strings
\* ------------------------------------------------------------------------
\* r.split(" ")[0]
SpecName(r) == r[1]

\* A spec string is the sequence of its tokens: a name, a number or a
\* build string is one token, and so is each of the characters
\* " "  =  <  >  !  ~  ,  |  *  .  [  ]
\* so that "blah >=1.1 *_osx" is <<"blah"," ",">","=","1",".","1"," ","*_osx">>

RECURSIVE SplitTok(_, _)
\* str.split(sep)
SplitTok(s, sep) ==
    IF \A i \in 1..Len(s) : s[i] # sep THEN <<s>>
    ELSE LET i == CHOOSE i \in 1..Len(s) :
                     s[i] = sep /\ \A j \in 1..(i-1) : s[j] # sep
         IN <<SubSeq(s, 1, i-1)>> \o SplitTok(SubSeq(s, i+1, Len(s)), sep)

RECURSIVE Strip(_)
\* str.strip()
Strip(s) ==
    IF s # <<>> /\ Head(s) = " " THEN Strip(Tail(s))
    ELSE IF s # <<>> /\ s[Len(s)] = " " THEN Strip(SubSeq(s, 1, Len(s) - 1))
    ELSE s

\* str.replace(" ", "")
RemoveSpaces(s) == SelectSeq(s, LAMBDA c : c # " ")

\* str.startswith
StartsWith(s, prefix) == Len(s) >= Len(prefix) /\ SubSeq(s, 1, Len(prefix)) = prefix

RECURSIVE Join(_, _)
\* sep.join(parts)
Join(parts, sep) ==
    IF parts = <<>> THEN <<>>
    ELSE IF Len(parts) = 1 THEN parts[1]
    ELSE parts[1] \o sep \o Join(Tail(parts), sep)

REQ_START_NOSTAR ==
    {<<"!", "=">>, <<"=", "=">>, <<">">>, <<"<">>, <<">", "=">>, <<"<", "=">>, <<"~", "=">>}

\* a mutant of the clause rule: the star is added whether or not the clause
\* already holds one
MungeClauseIgnoringStar(p) ==
    LET pp == Strip(p)
    IN IF \E v \in REQ_START_NOSTAR : StartsWith(pp, v)
       THEN pp
       ELSE (IF StartsWith(pp, <<"=">>) THEN Tail(pp) ELSE pp) \o <<".", "*">>

\* the body of the inner loop of _munge_req_star for one clause
MungeClause(p) ==
    LET pp == Strip(p)
    IN IF (\E v \in REQ_START_NOSTAR : StartsWith(pp, v)) \/ "*" \in Range(pp)
       THEN pp
       ELSE (IF StartsWith(pp, <<"=">>) THEN Tail(pp) ELSE pp) \o <<".", "*">>

\* a mutant of _munge_req_star: the version is split on "," only
_munge_req_star_comma_only(req) ==
    LET csplit == SplitTok(req, ",")
    IN Join([ic \in 1..Len(csplit) |-> MungeClause(csplit[ic])], <<",">>)

\* _munge_req_star: split on ",", then on "|", munge each clause, and put
\* the separators back
_munge_req_star(req) ==
    LET csplit == SplitTok(req, ",")
        munged(p) == LET psplit == SplitTok(p, "|")
                     IN Join([ip \in 1..Len(psplit) |-> MungeClause(psplit[ip])], <<"|">>)
    IN Join([ic \in 1..Len(csplit) |-> munged(csplit[ic])], <<",">>)

\* conda.models.match_spec._parse_version_plus_build: the build is what
\* follows the first " " or "=" that is not preceded by an operator or a
\* separator and is followed, up to the end, by no such character; blanks
\* are removed from the version
_parse_version_plus_build(v_plus_b) ==
    LET n == Len(v_plus_b)
        cut(i) == /\ v_plus_b[i] \in {" ", "="}
                  /\ v_plus_b[i-1] \notin {"=", "!", "|", ",", "<", ">", "~"}
                  /\ Range(SubSeq(v_plus_b, i+1, n)) \cap {"-", "=", ",", "|", "<", ">", "~"} = {}
        cuts == {i \in 2..(n-1) : cut(i)}
    IN IF cuts = {}
       THEN [version |-> RemoveSpaces(v_plus_b), build |-> <<>>]
       ELSE LET i == CHOOSE i \in cuts : \A j \in cuts : i <= j
            IN [version |-> RemoveSpaces(SubSeq(v_plus_b, 1, i-1)),
                build |-> Strip(SubSeq(v_plus_b, i+1, n))]

\* conda.models.match_spec._parse_spec_str on the version: "=1.2" stands
\* for "1.2*" when no build follows and for "1.2" otherwise, "==1.2"
\* without a build for "1.2"
RewriteVersion(version, build) ==
    IF version \in {<<"=">>, <<"=", "=">>} \/ Head(version) # "=" THEN version
    ELSE LET test_str == Tail(version)
         IN IF StartsWith(version, <<"=", "=">>) /\ build = <<>>
            THEN SubSeq(version, 3, Len(version))
            ELSE IF Range(test_str) \cap {"=", ",", "|"} = {}
            THEN (IF build = <<>> /\ test_str[Len(test_str)] # "*"
                  THEN test_str \o <<"*">> ELSE test_str)
            ELSE version

\* conda.models.version.VersionSpec(...).spec_str: the clauses and
\* separators as given, a clause "1.2*" written "1.2.*"
SpecStr(version) ==
    LET clause(c) ==
            IF /\ Len(c) >= 2
               /\ c[Len(c)] = "*"
               /\ c[Len(c) - 1] # "."
               /\ "*" \notin Range(SubSeq(c, 1, Len(c) - 1))
               /\ Head(c) \notin {"=", "<", ">", "!", "~"}
            THEN SubSeq(c, 1, Len(c) - 1) \o <<".", "*">>
            ELSE c
        csplit == SplitTok(version, ",")
        ors(p) == LET psplit == SplitTok(p, "|")
                  IN Join([ip \in 1..Len(psplit) |-> clause(psplit[ip])], <<"|">>)
    IN Join([ic \in 1..Len(csplit) |-> ors(csplit[ic])], <<",">>)

\* MatchSpec(myspec): the name runs up to the first blank or operator, a
\* trailing [build=...] gives the build, the rest is version and build
MatchSpec(myspec) ==
    LET Fields(name, vb, keyed, build) ==
            [name |-> name,
             version |-> IF vb.version = <<>> THEN <<>>
                         ELSE RewriteVersion(vb.version, vb.build),
             build |-> IF keyed THEN build ELSE vb.build]
        VersionAndBuild(rest) ==
            IF rest = <<>> THEN [version |-> <<>>, build |-> <<>>]
            ELSE _parse_version_plus_build(rest)
        NameEnd(s, stops) ==
            IF stops = {} THEN Len(s) + 1 ELSE CHOOSE i \in stops : \A j \in stops : i <= j
        Cut(s, n, keyed, build) ==
            Fields(SubSeq(s, 1, n - 1), VersionAndBuild(Strip(SubSeq(s, n, Len(s)))),
                   keyed, build)
        Plain(s, keyed, build) ==
            Cut(s, NameEnd(s, {i \in 1..Len(s) : s[i] \in {" ", "=", "<", ">", "!", "~"}}),
                keyed, build)
        Bracketed(s0, lb) ==
            Plain(Strip(SubSeq(s0, 1, lb - 1)),
                  SubSeq(s0, lb + 1, lb + 2) = <<"build", "=">>,
                  SubSeq(s0, lb + 3, Len(s0) - 1))
        Parse(s0) ==
            IF s0 # <<>> /\ s0[Len(s0)] = "]" /\ "[" \in Range(s0)
            THEN Bracketed(s0, CHOOSE i \in 1..Len(s0) :
                                   s0[i] = "[" /\ \A j \in 1..(i-1) : s0[j] # "[")
            ELSE Plain(s0, FALSE, <<>>)
    IN Parse(Strip(myspec))

\* convert_spec_to_conda_build(myspec): raised is "RuntimeError" for a
\* build without a version, out is the normalized spec string otherwise
convert_spec_to_conda_build(myspec) ==
    LET Convert(m) ==
            IF m.build # <<>> /\ m.version = <<>>
            THEN [raised |-> "RuntimeError", out |-> <<>>]
            ELSE [raised |-> "",
                  out |-> Join(<<m.name>>
                               \o (IF m.version # <<>>
                                   THEN <<_munge_req_star(SpecStr(m.version))>> ELSE <<>>)
                               \o (IF m.build # <<>> THEN <<m.build>> ELSE <<>>),
                               <<" ">>)]
    IN Convert(MatchSpec(myspec))

\* The requirement lists of the pipeline keep a spec as its blank-separated
\* words, <<name>>, <<name, version>> or <<name, version, build>>, each word
\* standing for its text:
VersionText ==
    ("1" :> <<"1">>) @@ ("2" :> <<"2">>) @@ ("=1" :> <<"=", "1">>) @@ ("=2" :> <<"=", "2">>) @@
    ("1.*" :> <<"1", ".", "*">>) @@ ("2.*" :> <<"2", ".", "*">>) @@ ("*" :> <<"*">>) @@
    (">=1" :> <<">", "=", "1">>) @@ (">=2" :> <<">", "=", "2">>) @@ ("<2" :> <<"<", "2">>) @@
    (">=1,<2" :> <<">", "=", "1", ",", "<", "2">>) @@
    (">=2,<3" :> <<">", "=", "2", ",", "<", "3">>)

\* the one spec of the model that carries a build string but no version
\* ("q[build=b]" in MatchSpec bracket syntax)
BuildNoVersionSpec == <<"q[build=b]">>

\* the text of a spec of the pipeline
SpecText(s) ==
    IF s = BuildNoVersionSpec THEN <<"q", "[", "build", "=", "b", "]">>
    ELSE <<s[1]>> \o (IF Len(s) >= 2 THEN <<" ">> \o VersionText[s[2]] ELSE <<>>)
                  \o (IF Len(s) >= 3 THEN <<" ", s[3]>> ELSE <<>>)

\* the words of a spec text
TextSpec(t) ==
    LET words == SplitTok(t, " ")
        version == CHOOSE v \in DOMAIN VersionText : VersionText[v] = words[2]
    IN <<words[1][1]>> \o (IF Len(words) >= 2 THEN <<version>> ELSE <<>>)
                      \o (IF Len(words) >= 3 THEN <<words[3][1]>> ELSE <<>>)

\* convert_spec_to_conda_build raises on the spec
Malformed(s) == convert_spec_to_conda_build(SpecText(s)).raised # ""

\* convert_spec_to_conda_build on a spec of the pipeline that is not Malformed
ConvertSpec(s) == TextSpec(convert_spec_to_conda_build(SpecText(s)).out)

\* MatchSpec(s).get_exact_value("name")
MatchSpecName(s) == s[1]

\* does version string ver satisfy the version constraint vc
VersionMatch(vc, ver) ==
    CASE vc = "*" -> TRUE
      [] vc = "1.*" -> ver = "1"
      [] vc = "2.*" -> ver = "2"
      [] vc = "1" -> ver = "1"
      [] vc = "2" -> ver = "2"
      [] vc = ">=1" -> ver \in {"1", "2"}
      [] vc = ">=2" -> ver = "2"
      [] vc = "<2" -> ver = "1"
      [] vc = ">=1,<2" -> ver = "1"
      [] vc = ">=2,<3" -> ver = "2"
      [] OTHER -> FALSE

\* ------------------------------------------------------------------------
\* The package index: what load_channels puts in the pool
\* ------------------------------------------------------------------------
NoRx == [kind |-> "none"]

Pk(n, v, sub, deps, rx) ==
    [name |-> n, version |-> v, build |-> "0", subdirs |-> sub,
     depends |-> deps, rx |-> rx]

\* f"{platform}-{arch}", kept as the pair of its two parts
Sub(platform, arch) == << <<platform>>, <<arch>> >>

AllSub == {Sub("linux", "64"), Sub("osx", "64"), Sub("osx", "arm64")}

\* c   : a compiler with strong run exports on its runtime cr and on the
\*       library out, which the recipe of the model builds itself
\* h   : a host library exporting a weak pin on itself, a bare-name noarch
\*       export and a strong_constrains on n (fenics-basix / nanobind)
\* n   : two versions; sj depends on py; zq nothing depends on
Repo ==
    { Pk("c", "1", {Sub("linux", "64"), Sub("osx", "64")}, {},
         [kind |-> "map", map |-> [strong |-> {<<"cr">>, <<"out">>}, weak_constrains |-> {<<"zq", ">=1">>}]]),
      Pk("cr", "1", AllSub, {}, NoRx),
      Pk("h", "1", AllSub, {<<"cr">>},
         [kind |-> "map", map |-> [weak |-> {<<"h", ">=1">>, <<"zq">>},
                                   noarch |-> {<<"py">>},
                                   strong_constrains |-> {<<"n", "2.*">>}]]),
      Pk("n", "1", AllSub, {}, NoRx),
      Pk("n", "2", AllSub, {}, NoRx),
      Pk("py", "1", AllSub, {}, [kind |-> "str", str |-> <<"py">>]),
      Pk("py", "2", {Sub("linux", "64")}, {}, [kind |-> "list", list |-> <<<<"py", ">=2">>>>]),
      Pk("sj", "1", AllSub, {<<"py">>}, NoRx),
      Pk("zq", "1", AllSub, {}, NoRx) }

\* the file name of a package inside its channel subdir
FileName(p) == <<p.name, p.version, p.build>>

PkgIds == {FileName(p) : p \in Repo}

PkgOf(fn) == CHOOSE p \in Repo : FileName(p) = fn

\* the repos a solver for `platform` holds
Index(platform) == {p \in Repo : platform \in p.subdirs}

\* ------------------------------------------------------------------------
\* The solver engine contract (libmamba Solver: add_pin, add_jobs, solve)
\* ------------------------------------------------------------------------
Satisfies(p, s) ==
    /\ p.name = MatchSpecName(s)
    /\ Len(s) >= 2 => VersionMatch(s[2], p.version)
    /\ Len(s) >= 3 => s[3] \in {"*", p.build}

ValidInstall(S, jobs, pins) ==
    /\ \A p, q \in S : p.name = q.name => p = q
    /\ \A j \in jobs : \E p \in S : Satisfies(p, j)
    /\ \A p \in S : \A d \in p.depends : \E q \in S : Satisfies(q, d)
    /\ \A c \in pins : \A p \in S : p.name = MatchSpecName(c) => Satisfies(p, c)
    \* nothing is installed that no job and no installed package asks for
    /\ \A p \in S : \/ \E j \in jobs : Satisfies(p, j)
                    \/ \E q \in S \ {p} : \E d \in q.depends : Satisfies(p, d)

RECURSIVE NameClosure(_, _)
\* the package names the jobs can reach through the depends of the index
NameClosure(idx, names) ==
    LET more == names \cup
                {MatchSpecName(d) : d \in UNION {p.depends : p \in {q \in idx : q.name \in names}}}
    IN IF more = names THEN names ELSE NameClosure(idx, more)

Candidates(platform, jobs) ==
    LET idx == Index(platform)
        names == NameClosure(idx, {MatchSpecName(j) : j \in jobs})
    IN SUBSET {p \in idx : p.name \in names}

\* a mutant of the engine call: the constraints are added as install jobs
EngineSolutionsPinsAsJobs(platform, jobs, pins) ==
    {S \in Candidates(platform, jobs \cup pins) : ValidInstall(S, jobs \cup pins, {})}

\* solver.add_pin(c) for the constraints, solver.add_jobs(specs, INSTALL),
\* solver.solve(): the install sets the engine may answer with; {} when the
\* problem is unsatisfiable
EngineSolutions(platform, jobs, pins) ==
    {S \in Candidates(platform, jobs) : ValidInstall(S, jobs, pins)}

\* " ".join([data["name"], data["version"], data["build"]])
SolutionEntry(p) == <<p.name, p.version, p.build>>

\* ------------------------------------------------------------------------
\* utils.py: run exports of one artifact
\* ------------------------------------------------------------------------
\* a mutant of the conversion: a key that is no bucket name becomes a weak
\* entry, as the loop of rattler_solver._get_run_export does
_convert_run_exports_unknown_to_weak(rx) ==
    CASE rx.kind = "none" -> DEFAULT_RUN_EXPORTS
      [] rx.kind = "str" -> [DEFAULT_RUN_EXPORTS EXCEPT !["weak"] = {rx.str}]
      [] rx.kind = "list" -> [DEFAULT_RUN_EXPORTS EXCEPT !["weak"] = Range(rx.list)]
      [] OTHER -> [k \in BucketNames |->
                     (IF k \in DOMAIN rx.map THEN rx.map[k] ELSE {}) \cup
                     (IF k = "weak" THEN {<<u>> : u \in DOMAIN rx.map \ BucketNames}
                      ELSE {})]

\* rx is None, one string, a flat list or a mapping of lists
_convert_run_exports_to_canonical_form(rx) ==
    CASE rx.kind = "none" -> DEFAULT_RUN_EXPORTS
      [] rx.kind = "str" -> [DEFAULT_RUN_EXPORTS EXCEPT !["weak"] = {rx.str}]
      [] rx.kind = "list" -> [DEFAULT_RUN_EXPORTS EXCEPT !["weak"] = Range(rx.list)]
      [] OTHER -> [k \in BucketNames |->
                     IF k \in DOMAIN rx.map THEN rx.map[k] ELSE {}]

\* What one source of run exports does when asked: it answers None
\* (st "none": nothing found, or a failure the source catches itself), it
\* answers a value (st "ok", possibly an empty mapping), or an exception
\* leaves it (st "raise")
NoAnswer == [st |-> "none"]

Answer(raw) == [st |-> "ok", val |-> raw]

Raises == [st |-> "raise"]

\* a mutant of get_run_exports' body: an empty answer counts as no answer
ResolveRunExportsSkipEmpty(env) ==
    LET empty(a) == a.st = "ok" /\ a.val = [kind |-> "map", map |-> <<>>]
        none(a) == a.st = "none" \/ empty(a)
    IN IF env.json.st = "raise"
       THEN [raised |-> "ZstdError", queried |-> <<"json">>, record |-> DEFAULT_RUN_EXPORTS]
       ELSE IF ~none(env.json)
       THEN [raised |-> "", queried |-> <<"json">>,
             record |-> _convert_run_exports_to_canonical_form(env.json.val)]
       ELSE IF env.channeldata = "raise"
       THEN [raised |-> "RequestException", queried |-> <<"json">>,
             record |-> DEFAULT_RUN_EXPORTS]
       ELSE IF env.channeldata = "no"
       THEN [raised |-> "", queried |-> <<"json">>, record |-> DEFAULT_RUN_EXPORTS]
       ELSE IF ~none(env.info)
       THEN [raised |-> "", queried |-> <<"json", "info">>,
             record |-> _convert_run_exports_to_canonical_form(env.info.val)]
       ELSE [raised |-> "", queried |-> <<"json", "info", "download">>,
             record |-> IF none(env.download) THEN DEFAULT_RUN_EXPORTS
                        ELSE _convert_run_exports_to_canonical_form(env.download.val)]

\* the body of get_run_exports (a cache miss) in an environment env that
\* tells what run_exports.json ("json"), the channel data lookup,
\* conda-forge-metadata ("info") and the artifact download would do:
\* the sources queried in order, the exception that leaves the call if
\* any, and the record returned. _fetch_json_zst only catches the request
\* error, not a failing decompress or json.loads; the channel data download
\* is not guarded; the other two sources catch every exception themselves.
ResolveRunExports(env) ==
    IF env.json.st = "raise"
    THEN [raised |-> "ZstdError", queried |-> <<"json">>, record |-> DEFAULT_RUN_EXPORTS]
    ELSE IF env.json.st = "ok"
    THEN [raised |-> "", queried |-> <<"json">>,
          record |-> _convert_run_exports_to_canonical_form(env.json.val)]
    ELSE IF env.channeldata = "raise"
    THEN [raised |-> "RequestException", queried |-> <<"json">>,
          record |-> DEFAULT_RUN_EXPORTS]
    ELSE IF env.channeldata = "no"
    THEN [raised |-> "", queried |-> <<"json">>, record |-> DEFAULT_RUN_EXPORTS]
    ELSE IF env.info.st = "ok"
    THEN [raised |-> "", queried |-> <<"json", "info">>,
          record |-> _convert_run_exports_to_canonical_form(env.info.val)]
    ELSE [raised |-> "", queried |-> <<"json", "info", "download">>,
          record |-> IF env.download.st = "ok"
                     THEN _convert_run_exports_to_canonical_form(env.download.val)
                     ELSE DEFAULT_RUN_EXPORTS]

\* the environment of the package index of the model: run_exports.json
\* lists the run exports of every artifact that has some
EnvOf(fn) ==
    [json |-> IF PkgOf(fn).rx.kind = "none" THEN NoAnswer ELSE Answer(PkgOf(fn).rx),
     channeldata |-> "no", info |-> NoAnswer, download |-> NoAnswer]

\* what the sources answer for an artifact, in canonical form: the record
\* get_run_exports computes on a cache miss
SourceRunExports(fn) == ResolveRunExports(EnvOf(fn)).record

\* get_run_exports under functools.lru_cache: a hit returns the cached
\* object itself, a miss computes the record from the sources
get_run_exports(cache, fn) ==
    IF cache[fn] # None THEN cache[fn][1] ELSE SourceRunExports(fn)

EmptyCache == [fn \in PkgIds |-> None]

\* ------------------------------------------------------------------------
\* mamba_solver.py: MambaSolver
\* ------------------------------------------------------------------------
\* {v for v in rx[key] if v not in ign_rex}: v is the whole export string,
\* ign_rex a set of package names
FilterIgnored(rx, ign_rex) ==
    [k \in BucketNames |-> {v \in rx[k] : v \notin {<<nm>> : nm \in ign_rex}}]

\* the packages of the solution whose run exports are looked up
Contributing(link, _specs, ignore_run_exports_from) ==
    LET names == {MatchSpecName(s) : s \in Range(_specs)}
        ign_rex_from == {MatchSpecName(s) : s \in Range(ignore_run_exports_from)}
    IN {p \in link : p.name \in names /\ p.name \notin ign_rex_from}

\* MambaSolver._get_run_exports: the aggregate, and the cache after the
\* in-place rewrite rx[key] = {...} of each record get_run_exports returned
_get_run_exports(cache, link, _specs, ignore_run_exports_from, ignore_run_exports) ==
    LET ign_rex == {MatchSpecName(s) : s \in Range(ignore_run_exports)}
        contrib == Contributing(link, _specs, ignore_run_exports_from)
        rxof(p) == FilterIgnored(get_run_exports(cache, FileName(p)), ign_rex)
    IN [run_exports |-> [k \in BucketNames |-> UNION {rxof(p)[k] : p \in contrib}],
        cache |-> [fn \in PkgIds |->
                     IF \E p \in contrib : FileName(p) = fn
                     THEN Some(rxof(PkgOf(fn)))
                     ELSE cache[fn]]]

\* solver.explain_problems(): the text names the jobs of the problem
Explanation(jobs) == <<"explain_problems", jobs>>

\* MambaSolver.solve: the outcomes of one call. raised is "" for a normal
\* return; hasRx tells whether the 4-tuple (with run_exports) is returned;
\* ign_from and ign are ignore_run_exports_from and ignore_run_exports
MambaSolve(cache, platform, specs, get_rx, ign_from, ign, constraints) ==
    IF \E s \in Range(specs) \cup Range(constraints) : Malformed(s)
    THEN {[raised |-> "RuntimeError", success |-> FALSE, err |-> None,
           solution |-> None, link |-> {}, hasRx |-> FALSE,
           run_exports |-> DEFAULT_RUN_EXPORTS, cache |-> cache]}
    ELSE
      LET _specs == [i \in 1..Len(specs) |-> ConvertSpec(specs[i])]
          _constraints == [i \in 1..Len(constraints) |->
                              ConvertSpec(constraints[i])]
          sols == EngineSolutions(platform, Range(_specs), Range(_constraints))
      IN IF sols = {}
         THEN {[raised |-> "", success |-> FALSE, err |-> Some(Explanation(_specs)),
                solution |-> None, link |-> {}, hasRx |-> get_rx,
                run_exports |-> DEFAULT_RUN_EXPORTS, cache |-> cache]}
         ELSE {LET g == IF get_rx
                        THEN _get_run_exports(cache, S, _specs, ign_from, ign)
                        ELSE [run_exports |-> DEFAULT_RUN_EXPORTS, cache |-> cache]
               IN [raised |-> "", success |-> TRUE, err |-> None,
                   solution |-> Some(SetToSeq({SolutionEntry(p) : p \in S})),
                   link |-> S, hasRx |-> get_rx,
                   run_exports |-> g.run_exports, cache |-> g.cache]
               : S \in sols}

\* ------------------------------------------------------------------------
\* rattler_solver.py: RattlerSolver
\* ------------------------------------------------------------------------
\* RattlerSolver.solve. On success `err` was never bound when the return
\* statement reads it (UnboundLocalError); when the run exports are asked
\* for, _get_run_exports may raise first, which lands in the except branch.
\* The except branch reads self.channels for print_warning, an attribute
\* __init__ never sets (AttributeError). Its run exports come from
\* _get_run_export, which has a cache of its own.
RattlerSolve(cache, platform, specs, get_rx, ign_from, ign) ==
    LET sols == EngineSolutions(platform, Range(specs), {})
    IN IF sols = {}
       THEN {[raised |-> "AttributeError", success |-> FALSE,
              err |-> Some(Explanation(specs)), solution |-> None, link |-> {},
              hasRx |-> get_rx, run_exports |-> DEFAULT_RUN_EXPORTS,
              cache |-> cache]}
       ELSE {[raised |-> e, success |-> TRUE, err |-> None,
              solution |-> Some(SetToSeq({SolutionEntry(p) : p \in S})),
              link |-> S, hasRx |-> get_rx,
              run_exports |-> DEFAULT_RUN_EXPORTS, cache |-> cache]
             : S \in sols,
               e \in IF get_rx THEN {"UnboundLocalError", "AttributeError"}
                      ELSE {"UnboundLocalError"}}

\* ------------------------------------------------------------------------
\* utils.py: requirement list helpers
\* ------------------------------------------------------------------------
RECURSIVE remove_reqs_by_name(_, _)
\* a mutant of the filter: only the first requirement is looked at
remove_reqs_by_name_first(reqs, names) ==
    IF reqs # <<>> /\ SpecName(Head(reqs)) \in names THEN Tail(reqs) ELSE reqs

\* [r for r in reqs if r.split(" ")[0] not in set(names)]
remove_reqs_by_name(reqs, names) ==
    IF reqs = <<>> THEN <<>>
    ELSE (IF SpecName(Head(reqs)) \in names THEN <<>> ELSE <<Head(reqs)>>)
         \o remove_reqs_by_name(Tail(reqs), names)

_filter_problematic_reqs(reqs) == remove_reqs_by_name(reqs, PROBLEMATIC_REQS)

\* names listed under pin_run_as_build in the variant configuration
PinRunAsBuild == {"cr"}

\* A pin is the record of a version range or of an exact pin: ">=L,<U" is
\* lower <<L>>, upper <<U>>, and "<U.0a0" has tail ".0a0"; a version is the
\* sequence of its numbers
RangePin(lower, upper, tail) ==
    [kind |-> "range", lower |-> lower, upper |-> upper, tail |-> tail, build |-> <<>>]

\* (version + " " + build).strip()
ExactPin(version, build) ==
    [kind |-> "exact", lower |-> version, upper |-> <<>>, tail |-> "", build |-> build]

\* conda_build.utils.apply_pin_expressions(version, min_pin, max_pin); a pin
\* expression is the number of its x's, 0 for None or "": the lower bound
\* keeps min_pin places of the version, the upper bound keeps max_pin places
\* with the last one raised by one and ".0a0" appended
apply_pin_expressions(version, min_pin, max_pin) ==
    LET n == Len(version)
        lo == IF min_pin < n THEN min_pin ELSE n
        hi == IF max_pin < n THEN max_pin ELSE n
    IN RangePin(IF lo = 0 THEN <<>> ELSE << SubSeq(version, 1, lo) >>,
                IF hi = 0 THEN <<>>
                ELSE << [i \in 1..hi |-> IF i = hi THEN version[i] + 1 ELSE version[i]] >>,
                IF hi = 0 THEN "" ELSE ".0a0")

\* min_pin "x.x.x.x.x.x" and max_pin "x" as numbers of x's
PinDefaults == <<6, 1>>

\* the numbers of the versions of the package index
VersionNumbers == ("1" :> <<1>>) @@ ("2" :> <<2>>)

\* the words of the pipeline for the pins of those versions
PinWord(pin) ==
    IF pin.lower = << <<1>> >> THEN ">=1,<2" ELSE ">=2,<3"

\* conda_build.render.get_pin_from_build as apply_pins calls it: a
\* requirement whose name is under pin_run_as_build and has a resolved
\* version among the build dependencies is rewritten to the pin
get_pin_from_build(noarch, dep, full_build_dep_versions) ==
    LET dep_name == dep[1]
        build == IF Len(dep) >= 3 THEN <<dep[3]>> ELSE <<>>
    IN IF /\ dep_name \in DOMAIN full_build_dep_versions
          /\ full_build_dep_versions[dep_name] # <<>>
          /\ dep_name \in PinRunAsBuild
          /\ ~(dep_name = "python" /\ noarch)
       THEN <<dep_name, PinWord(apply_pin_expressions(
                               VersionNumbers[full_build_dep_versions[dep_name][1]],
                               PinDefaults[1], PinDefaults[2]))>> \o build
       ELSE dep

\* apply_pins(reqs, host_req, build_req, outnames, m)
apply_pins(reqs, host_req, build_req, outnames, m) ==
    LET pin_deps == remove_reqs_by_name(IF m.is_cross THEN host_req ELSE build_req,
                                        outnames)
        \* {dep.split()[0]: " ".join(dep.split()[1:])}, later entries win
        full_build_dep_versions ==
            [nm \in {SpecName(d) : d \in Range(pin_deps)} |->
                LET i == CHOOSE i \in 1..Len(pin_deps) :
                            /\ SpecName(pin_deps[i]) = nm
                            /\ \A j \in (i+1)..Len(pin_deps) : SpecName(pin_deps[j]) # nm
                IN Tail(pin_deps[i])]
        pinned_req == [i \in 1..Len(reqs) |->
                         get_pin_from_build(m.noarch, reqs[i], full_build_dep_versions)]
    IN _filter_problematic_reqs(pinned_req)

\* ------------------------------------------------------------------------
\* check_solvable.py: file names of the variant configs
\* ------------------------------------------------------------------------
\* A file name is the sequence of its tokens, "_" and "." being tokens of
\* their own: linux_aarch64_.yaml is <<"linux","_","aarch64","_",".","yaml">>

\* str.rsplit(sep, maxsplit=1)[0]
RSplitHead(s, sep) ==
    IF \A i \in 1..Len(s) : s[i] # sep THEN s
    ELSE LET i == CHOOSE i \in 1..Len(s) :
                     s[i] = sep /\ \A j \in (i+1)..Len(s) : s[j] # sep
         IN SubSeq(s, 1, i-1)

NonDefaultArchs == {<<"32">>, <<"aarch64">>, <<"ppc64le">>, <<"armv7l">>, <<"arm64">>}

\* platform and arch of a config file; raised is "IndexError" when
\* _parts[1] does not exist
ParsePlatformArch(cbc_fname) ==
    LET _parts == SplitTok(cbc_fname, "_")
    IN IF Len(_parts) < 2
       THEN [raised |-> "IndexError", platform |-> <<>>, arch |-> <<>>]
       ELSE [raised |-> "", platform |-> _parts[1],
             arch |-> IF _parts[2] \in NonDefaultArchs THEN _parts[2] ELSE <<"64">>]

\* os.path.basename(cbc_fname).rsplit(".", maxsplit=1)[0]
CbcName(cbc_fname) == RSplitHead(cbc_fname, ".")

\* a mutant of the build platform: the override mapping is not consulted
BuildSubdirNoOverride(build_platform, platform, arch) == <<platform, arch>>

\* build_platform.get(f"{platform}_{arch}", f"{platform}_{arch}") followed by
\* build_platform_arch.split("_") in _is_recipe_solvable_on_platform
BuildSubdir(build_platform, platform, arch) ==
    LET key == platform \o <<"_">> \o arch
        build_platform_arch == IF key \in DOMAIN build_platform
                               THEN build_platform[key] ELSE key
        parts == SplitTok(build_platform_arch, "_")
    IN <<parts[1], parts[2]>>

\* the files of the model in the order sorted() gives them
CbcCatalog ==
    << <<"linux", ".", "yaml">>,
       <<"linux", "_", "64", "_", ".", "yaml">>,
       <<"linux", "_", "py3", ".", "7", "_", ".", "yaml">>,
       <<"osx", "_", "arm64", "_", ".", "yaml">> >>

RECURSIVE SortedCbcs(_)
\* sorted(glob.glob(".ci_support/*.yaml")) for a set of catalog files
SortedCbcs(I) ==
    IF I = {} THEN <<>>
    ELSE LET m == CHOOSE m \in I : \A k \in I : m <= k
         IN <<CbcCatalog[m]>> \o SortedCbcs(I \ {m})

\* ------------------------------------------------------------------------
\* The rendered recipe: what conda_build.api.render answers
\* ------------------------------------------------------------------------
Output(name, cross, noarch, bih, build, host, run, rc, test) ==
    [name |-> name, is_cross |-> cross, noarch |-> noarch, build_is_host |-> bih,
     build |-> build, host |-> host, run |-> run, run_constrained |-> rc,
     test_requires |-> test, test_requirements |-> <<>>,
     ignore_run_exports |-> <<>>, ignore_run_exports_from |-> <<>>]

\* the lists of outputs a render may answer: one output, or two
RecipeInputs ==
    LET \* requirement profiles of one output: build, host, run,
        \* run_constrained, test
        ReqProfiles ==
          { \* a compiler, a host library with a strong_constrains export on
            \* n, and a run requirement on the other version of n
            << << <<"c">> >>, << <<"h">> >>, << <<"n", "=1">> >>, <<>>, <<>> >>,
            \* a build and a test requirement nothing provides
            << << <<"m">> >>, << <<"h">>, <<"out">> >>, << <<"n">>, <<"cr">> >>,
               << <<"parquet-cpp">> >>, << <<"m">> >> >>,
            \* no requirement at all
            << <<>>, <<>>, <<>>, <<>>, <<>> >>,
            \* host and run only
            << <<>>, << <<"h">> >>, << <<"n", "=1">> >>, << <<"zq">> >>, << <<"sj">> >> >>,
            \* a run requirement with a build string and no version
            << <<>>, << <<"py">> >>, << BuildNoVersionSpec >>, <<>>, <<>> >>,
            \* build and host environments whose run exports fill every
            \* bucket, and a run_constrained entry on the output itself
            << << <<"c">>, <<"h">> >>, << <<"c">>, <<"h">> >>, << <<"n">> >>,
               << <<"out", ">=1">> >>, <<>> >>,
            \* a compiler and nothing else: what the later stages solve
            \* comes from its run exports
            << << <<"c">> >>, <<>>, <<>>, <<>>, <<>> >>,
            \* a compiler, a run_constrained entry on its runtime, which is
            \* pinned to the build, and test requirements, parquet-cpp in
            \* both lists
            << << <<"c">> >>, <<>>, <<>>, << <<"cr">>, <<"parquet-cpp", "=1">> >>,
               << <<"sj">>, <<"parquet-cpp">> >> >> }
        FlagInputs == {<<cross, noarch, bih>> : cross \in BOOLEAN, noarch \in BOOLEAN, bih \in BOOLEAN}
        MainOutputs ==
          {Output("out", f[1], f[2], f[3], r[1], r[2], r[3], r[4], r[5]) :
              f \in FlagInputs, r \in ReqProfiles}
        SecondOutput ==
          Output("out2", FALSE, FALSE, FALSE, <<>>, << <<"out">>, <<"py">> >>,
                 << <<"sj">> >>, <<>>, <<>>)
    IN {<<o>> : o \in MainOutputs} \cup
       {<<o, SecondOutput>> : o \in {x \in MainOutputs : x.is_cross = FALSE /\ x.noarch = FALSE}}

BuildPlatformInputs ==
    { <<>>,
      [k \in {<<"osx", "_", "arm64">>} |-> <<"osx", "_", "64">>] }

\* ------------------------------------------------------------------------
\* check_solvable.py: is_recipe_solvable and the worker
\* ------------------------------------------------------------------------
NoCiSupportMsg == <<"No .ci_support yaml files found!">>

NoMetaMsg == <<"No recipe meta.yaml file found!">>

Result(solvable, errors, by) ==
    [solvable |-> solvable, errors |-> errors, solvable_by_variant |-> by]

\* the empty dict
EmptyDict == <<>>

\* the result is_recipe_solvable makes up when the worker sent nothing in time
TimeoutResultFailClosed == Result(FALSE, <<>>, EmptyDict)

TimeoutResult == Result(TRUE, <<>>, EmptyDict)

\* a mutant of the result made from a received exception: the exception
\* is reported as an error of a solvable recipe
ExceptionResultSolvable(e) == Result(TRUE, << <<"repr", e>> >>, EmptyDict)

\* (False, [repr(res)], {}) for an exception received from the worker
ExceptionResult(e) == Result(FALSE, << <<"repr", e>> >>, EmptyDict)

\* the structural checks at the head of _is_recipe_solvable, in a mutant
\* that looks for the manifest first
EntryCheckMetaFirst(cbcs, hasMeta) ==
    IF ~hasMeta THEN Some(Result(FALSE, <<NoMetaMsg>>, EmptyDict))
    ELSE IF Len(cbcs) = 0 THEN Some(Result(FALSE, <<NoCiSupportMsg>>, EmptyDict))
    ELSE None

\* the structural checks at the head of _is_recipe_solvable: the early
\* return value, or None when the variants are to be checked
EntryCheck(cbcs, hasMeta) ==
    IF Len(cbcs) = 0 THEN Some(Result(FALSE, <<NoCiSupportMsg>>, EmptyDict))
    ELSE IF ~hasMeta THEN Some(Result(FALSE, <<NoMetaMsg>>, EmptyDict))
    ELSE None

\* a mutant of the verdict merge: the last verdict wins
AndMergeLastWins(solvable, _solvable) == _solvable

\* solvable = solvable and _solvable
AndMerge(solvable, _solvable) == solvable /\ _solvable

\* a mutant of the error bookkeeping: the error slot is appended always
AppendErrAlways(errors, _err) == Append(errors, IF _err = None THEN "None" ELSE _err[1])

\* if _err is not None: errors.append(_err)
AppendErr(errors, _err) == IF _err # None THEN Append(errors, _err[1]) ELSE errors

\* a mutant of the stage sequencing: a failed solve ends the output
AfterStageAbortOnFailure(stage, ok) ==
    IF ~ok THEN "next"
    ELSE CASE stage = "build" -> "host"
           [] stage = "host" -> "run"
           [] stage = "run" -> "test"
           [] OTHER -> "next"

\* where the loop body of _is_recipe_solvable_on_platform goes after a
\* stage, whatever the verdict ok of its solve
AfterStage(stage, ok) ==
    CASE stage = "build" -> "host"
      [] stage = "host" -> "run"
      [] stage = "run" -> "test"
      [] OTHER -> "next"

\* is_recipe_solvable starts a worker; a caller of _is_recipe_solvable
\* itself (inp.direct) has none
WorkerMode == ~inp.direct /\ inp.timeout /\ inp.solver \in {"mamba", "rattler"}

\* the timeout _is_recipe_solvable itself is given: _func passes none
InnerTimeout == IF WorkerMode THEN FALSE ELSE inp.timeout

\* the worker (or the in-process call) is at pc and was not killed
Running(pc) == w.pc = pc /\ ~w.killed

OutNames == {inp.metas[i].name : i \in 1..Len(inp.metas)}

IdleW ==
    [pc |-> "idle", vi |-> 0, oi |-> 0, solvable |-> TRUE, errors |-> <<>>,
     solvable_by_cbc |-> EmptyDict, ret |-> None, exc |-> "",
     platform |-> <<>>, arch |-> <<>>, bsub |-> <<>>,
     psolvable |-> TRUE, perrors |-> <<>>,
     build_req |-> <<>>, host_req |-> <<>>, run_req |-> <<>>,
     run_constrained |-> <<>>, killed |-> FALSE]

\* the caller's side: additional_channels is the list object the caller
\* passed, environ the CONDA_OVERRIDE_GLIBC entry of os.environ in the
\* caller's process (None when not set)
IdleParent ==
    [pc |-> "init", res |-> None, raised |-> "",
     additional_channels |-> <<>>, environ |-> None]

IdleHist == [visits |-> <<>>, renders |-> 0, timedOut |-> FALSE]

\* no helper function was called
IdleFx == [fn |-> "idle"]

IdleInp ==
    [cbcs |-> <<>>, hasMeta |-> FALSE, timeout |-> FALSE, solver |-> "mamba",
     build_platform |-> <<>>, metas |-> <<>>, direct |-> FALSE,
     additional_channels |-> <<>>, environ |-> None]

\* ------------------------------------------------------------------------
\* Solver-level specification: solve calls on one cached solver object
\* ------------------------------------------------------------------------
\* the arguments of the solve calls of the model: platform, specs,
\* ignore_run_exports_from and ignore_run_exports
SolveInputs ==
    [platform : {Sub("linux", "64"), Sub("osx", "64")},
     specs : { << <<"sj">> >>,
               << <<"h">> >>,
               << <<"h">>, <<"n", "=1">> >>,
               << <<"m">> >>,
               << <<"c">>, <<"py">> >>,
               << BuildNoVersionSpec >> },
     igf : { <<>>, << <<"h">> >> },
     ig : { <<>>, << <<"zq">> >>, << <<"n">> >> }]

NoCall ==
    [backend |-> "none", platform |-> Sub("linux", "64"), specs |-> <<>>,
     constraints |-> <<>>, get_run_exports |-> FALSE,
     ignore_run_exports_from |-> <<>>, ignore_run_exports |-> <<>>,
     raised |-> "", success |-> FALSE, err |-> None, solution |-> None,
     link |-> {}, hasRx |-> FALSE, run_exports |-> DEFAULT_RUN_EXPORTS]

CallRecord(backend, platform, specs, cons, g, igf, ig, o) ==
    [backend |-> backend, platform |-> platform, specs |-> specs,
     constraints |-> cons, get_run_exports |-> g,
     ignore_run_exports_from |-> igf, ignore_run_exports |-> ig,
     raised |-> o.raised, success |-> o.success, err |-> o.err,
     solution |-> o.solution, link |-> o.link, hasRx |-> o.hasRx,
     run_exports |-> o.run_exports]

InitSolve ==
    /\ rxCache = EmptyCache
    /\ call = NoCall
    /\ ncalls = 0
    /\ fx = IdleFx
    /\ inp = IdleInp
    /\ parent = IdleParent
    /\ w = IdleW
    /\ pipe = <<>>
    /\ hist = IdleHist

\* solve(specs, get_run_exports=True, ignore_run_exports_from=...,
\* ignore_run_exports=...): the call shape of the BUILD and HOST stages
MambaSolveRx ==
    /\ ncalls < MaxCalls
    /\ \E i \in SolveInputs :
          \E o \in MambaSolve(rxCache, i.platform, i.specs, TRUE, i.igf, i.ig, <<>>) :
             /\ call' = CallRecord("mamba", i.platform, i.specs, <<>>, TRUE, i.igf, i.ig, o)
             /\ rxCache' = o.cache
    /\ ncalls' = ncalls + 1
    /\ UNCHANGED <<dvars, fx>>

\* solve(specs, constraints=...): the call shape of the RUN and TEST stages
MambaSolveConstrained ==
    /\ ncalls < MaxCalls
    /\ \E i \in {x \in SolveInputs : x.igf = <<>> /\ x.ig = <<>>},
          cons \in { <<>>,
                     << <<"py", "=1">>, <<"zq", "=1">> >>,
                     << <<"py", "=1">>, <<"py", "=2">> >>,
                     << <<"n", "2">> >> } :
          \E o \in MambaSolve(rxCache, i.platform, i.specs, FALSE, <<>>, <<>>, cons) :
             /\ call' = CallRecord("mamba", i.platform, i.specs, cons, FALSE, <<>>, <<>>, o)
             /\ rxCache' = o.cache
    /\ ncalls' = ncalls + 1
    /\ UNCHANGED <<dvars, fx>>

RattlerSolveCall ==
    /\ ncalls < MaxCalls
    /\ \E i \in {x \in SolveInputs : x.specs # <<BuildNoVersionSpec>>}, g \in BOOLEAN :
          \E o \in RattlerSolve(rxCache, i.platform, i.specs, g, i.igf, i.ig) :
             /\ call' = CallRecord("rattler", i.platform, i.specs, <<>>, g, i.igf, i.ig, o)
             /\ rxCache' = o.cache
    /\ ncalls' = ncalls + 1
    /\ UNCHANGED <<dvars, fx>>

NextSolve == MambaSolveRx \/ MambaSolveConstrained \/ RattlerSolveCall

SpecSolve == InitSolve /\ [][NextSolve]_vars

\* ------------------------------------------------------------------------
\* Driver specification: one call of is_recipe_solvable
\* ------------------------------------------------------------------------
InitDriver ==
    /\ \E I \in {J \in SUBSET (1..Len(CbcCatalog)) : Cardinality(J) <= MaxVariants},
          hm \in BOOLEAN, t \in BOOLEAN, sv \in {"mamba", "bogus"},
          bp \in BuildPlatformInputs, ms \in RecipeInputs :
          \E direct \in IF t /\ sv = "mamba" THEN BOOLEAN ELSE {FALSE} :
          \E \* what the caller holds before the call: no list and no
             \* CONDA_OVERRIDE_GLIBC, or a list of one channel and a value
             c \in IF t /\ sv = "mamba" /\ ~direct
                   THEN {[ac |-> <<"extra">>, env |-> Some(<<"2.", 17>>)]}
                   ELSE {[ac |-> <<>>, env |-> None],
                         [ac |-> <<"extra">>, env |-> Some(<<"2.", 17>>)]} :
             /\ inp = [cbcs |-> SortedCbcs(I), hasMeta |-> hm, timeout |-> t,
                       solver |-> sv, build_platform |-> bp, metas |-> ms,
                       direct |-> direct, additional_channels |-> c.ac,
                       environ |-> c.env]
             /\ parent = [IdleParent EXCEPT !.additional_channels = c.ac,
                                            !.environ = c.env]
    /\ w = IdleW
    /\ pipe = <<>>
    /\ hist = IdleHist
    /\ rxCache = EmptyCache
    /\ call = NoCall
    /\ ncalls = 0
    /\ fx = IdleFx

\* is_recipe_solvable up to p.start() or up to the in-process call
Start ==
    /\ parent.pc = "init"
    /\ parent' = [parent EXCEPT !.pc = IF WorkerMode THEN "poll" ELSE "call"]
    /\ w' = [w EXCEPT !.pc = "entry"]
    /\ UNCHANGED <<inp, pipe, hist, rxCache, call, ncalls, fx>>

\* _is_recipe_solvable up to the loop over the config files. Lines 152-154:
\* additional_channels or [] is the caller's list when that is not empty,
\* and += appends to it in place; os.environ gets CONDA_OVERRIDE_GLIBC. A
\* worker does both on its own copies, an in-process call on the caller's.
Entry ==
    /\ Running("entry")
    /\ LET early == EntryCheck(inp.cbcs, inp.hasMeta)
       IN IF early # None
          THEN w' = [w EXCEPT !.pc = "ret", !.ret = early,
                              !.errors = early[1].errors]
          ELSE w' = [w EXCEPT !.pc = "loop", !.vi = 1, !.solvable = TRUE,
                              !.errors = <<>>, !.solvable_by_cbc = EmptyDict]
    /\ parent' = IF WorkerMode THEN parent
                 ELSE [parent EXCEPT
                         !.additional_channels =
                             IF @ = <<>> THEN @
                             ELSE Append(@, "virtual_package_repodata"),
                         !.environ = Some(<<"2.", MAX_GLIBC_MINOR>>)]
    /\ UNCHANGED <<inp, pipe, hist, rxCache, call, ncalls, fx>>

\* the loop is exhausted: del os.environ["CONDA_OVERRIDE_GLIBC"], return
\* solvable, errors, solvable_by_cbc
Finish ==
    /\ Running("loop")
    /\ w.vi > Len(inp.cbcs)
    /\ w' = [w EXCEPT !.pc = "ret",
                      !.ret = Some(Result(w.solvable, w.errors, w.solvable_by_cbc))]
    /\ parent' = IF WorkerMode THEN parent ELSE [parent EXCEPT !.environ = None]
    /\ UNCHANGED <<inp, pipe, hist, rxCache, call, ncalls, fx>>

\* a mutant of the timeout in the loop: what the variants processed so far
\* gave is returned
LoopTimeoutReportsSoFar ==
    /\ Running("loop")
    /\ w.vi <= Len(inp.cbcs)
    /\ InnerTimeout
    /\ w' = [w EXCEPT !.pc = "ret",
                      !.ret = Some(Result(w.solvable, w.errors, w.solvable_by_cbc))]
    /\ hist' = [hist EXCEPT !.timedOut = TRUE]
    /\ UNCHANGED <<inp, parent, pipe, rxCache, call, ncalls, fx>>

\* `if timeout and time.time() - start_time > timeout` found true
LoopTimeout ==
    /\ Running("loop")
    /\ w.vi <= Len(inp.cbcs)
    /\ InnerTimeout
    /\ w' = [w EXCEPT !.pc = "ret", !.ret = Some(Result(TRUE, <<>>, EmptyDict))]
    /\ hist' = [hist EXCEPT !.timedOut = TRUE]
    /\ UNCHANGED <<inp, parent, pipe, rxCache, call, ncalls, fx>>

\* one iteration of the loop up to the loop over the outputs: the file name
\* is parsed, the recipe rendered and the two solvers obtained
VariantStart ==
    /\ Running("loop")
    /\ w.vi <= Len(inp.cbcs)
    /\ LET pa == ParsePlatformArch(inp.cbcs[w.vi])
       IN IF pa.raised # ""
          THEN /\ w' = [w EXCEPT !.pc = "exc", !.exc = pa.raised]
               /\ UNCHANGED hist
          ELSE /\ hist' = [hist EXCEPT !.renders = @ + 1]
               /\ IF inp.solver \notin {"mamba", "rattler"}
                  THEN w' = [w EXCEPT !.pc = "exc", !.exc = "ValueError",
                                      !.platform = pa.platform, !.arch = pa.arch]
                  ELSE w' = [w EXCEPT
                               !.pc = IF Len(inp.metas) = 0 THEN "vend" ELSE "build",
                               !.oi = 1,
                               !.platform = pa.platform, !.arch = pa.arch,
                               !.bsub = BuildSubdir(inp.build_platform, pa.platform, pa.arch),
                               !.psolvable = TRUE, !.perrors = <<>>]
    /\ UNCHANGED <<inp, parent, pipe, rxCache, call, ncalls, fx>>

\* ------------------------------------------------------------------------
\* check_solvable.py: _is_recipe_solvable_on_platform, the four stages
\* ------------------------------------------------------------------------
\* solver_factory(channels, subdir) answers a solver object for the subdir;
\* with solver_backend "mamba" its solve is MambaSolver.solve, where the
\* timeout keyword has no effect on the outcome. The outputs of the model
\* ignore no run exports, so the stages leave the cached records as the
\* sources gave them.
\* list(set(l) | s)
ListUnion(l, s) == SetToSeq(Range(l) \cup s)

\* solvable = solvable and _solvable; if _err is not None: errors.append(_err)
AfterSolve(wx, o) ==
    [wx EXCEPT !.psolvable = AndMerge(@, o.success),
               !.perrors = AppendErr(@, o.err)]

\* the solution a solve returned, None read as [] (`host_req or []`)
SolutionOrEmpty(o) == IF o.solution = None THEN <<>> ELSE o.solution[1]

\* a mutant of the loop body: the RUN block stands before the HOST block
AdvanceRunBeforeHost(wx, stage, ok) ==
    LET nx == CASE stage = "build" -> "run"
                [] stage = "run" -> "host"
                [] stage = "host" -> "test"
                [] OTHER -> "next"
    IN IF nx # "next" THEN [wx EXCEPT !.pc = nx]
       ELSE IF wx.oi < Len(inp.metas) THEN [wx EXCEPT !.pc = "build", !.oi = @ + 1]
       ELSE [wx EXCEPT !.pc = "vend"]

\* the position after a stage: the next stage, the next output or the end
\* of the loop over the outputs
Advance(wx, stage, ok) ==
    LET nx == AfterStage(stage, ok)
    IN IF nx # "next" THEN [wx EXCEPT !.pc = nx]
       ELSE IF wx.oi < Len(inp.metas) THEN [wx EXCEPT !.pc = "build", !.oi = @ + 1]
       ELSE [wx EXCEPT !.pc = "vend"]

\* a mutant of the exception path: the pipeline catches the exception and
\* books it as a solve error of the variant
RaiseAsSolveError(wx, e) ==
    [wx EXCEPT !.psolvable = FALSE, !.perrors = Append(@, Some(e)), !.pc = "vend"]

\* an exception leaves the stage: nothing in _is_recipe_solvable_on_platform
\* or _is_recipe_solvable catches it
Raise(wx, e) == [wx EXCEPT !.pc = "exc", !.exc = e]

\* a mutant of the BUILD stage: a native build adds the weak run exports
\* of the build environment whether or not build is host
BuildExportsWeakAlways(m, wx, build_rx) ==
    LET rc == ListUnion(wx.run_constrained, build_rx["strong_constrains"])
    IN IF m.is_cross
       THEN [wx EXCEPT !.run_constrained = rc,
                       !.host_req = ListUnion(@, build_rx["strong"]),
                       !.run_req = IF ~m.noarch THEN ListUnion(@, build_rx["strong"]) ELSE @]
       ELSE IF m.noarch
       THEN [wx EXCEPT !.run_constrained = rc,
                       !.run_req = IF m.build_is_host
                                   THEN ListUnion(@, build_rx["noarch"]) ELSE @]
       ELSE [wx EXCEPT !.run_req = ListUnion(@, build_rx["strong"] \cup build_rx["weak"]),
                       !.run_constrained = ListUnion(rc, build_rx["weak_constrains"]),
                       !.host_req = IF m.build_is_host THEN @
                                    ELSE ListUnion(@, build_rx["strong"])]

\* what the BUILD stage does with the run exports of the build environment
BuildExports(m, wx, build_rx) ==
    LET rc == ListUnion(wx.run_constrained, build_rx["strong_constrains"])
    IN IF m.is_cross
       THEN [wx EXCEPT !.run_constrained = rc,
                       !.host_req = ListUnion(@, build_rx["strong"]),
                       !.run_req = IF ~m.noarch THEN ListUnion(@, build_rx["strong"]) ELSE @]
       ELSE IF m.noarch
       THEN [wx EXCEPT !.run_constrained = rc,
                       !.run_req = IF m.build_is_host
                                   THEN ListUnion(@, build_rx["noarch"]) ELSE @]
       ELSE IF m.build_is_host
       THEN [wx EXCEPT !.run_req = ListUnion(@, build_rx["strong"] \cup build_rx["weak"]),
                       !.run_constrained = ListUnion(rc, build_rx["weak_constrains"])]
       ELSE [wx EXCEPT !.run_constrained = rc,
                       !.run_req = ListUnion(@, build_rx["strong"]),
                       !.host_req = ListUnion(@, build_rx["strong"])]

\* a mutant of the HOST stage: the run exports of the host environment are
\* added for every output, cross-compiling or not
HostExportsAlways(m, wx, host_rx) ==
    [wx EXCEPT !.run_req = IF m.noarch
                           THEN ListUnion(@, host_rx["noarch"])
                           ELSE ListUnion(@, host_rx["weak"] \cup host_rx["strong"]),
               !.run_constrained = ListUnion(@, host_rx["weak_constrains"]
                                                 \cup host_rx["strong_constrains"])]

\* what the HOST stage does with the run exports of the host environment
HostExports(m, wx, host_rx) ==
    IF m.is_cross
    THEN [wx EXCEPT !.run_req = IF m.noarch
                                THEN ListUnion(@, host_rx["noarch"])
                                ELSE ListUnion(@, host_rx["weak"] \cup host_rx["strong"]),
                    !.run_constrained = ListUnion(@, host_rx["weak_constrains"]
                                                      \cup host_rx["strong_constrains"])]
    ELSE wx

\* the history entry of one stage of one output
Visit(stage, specs, cons, sub, solved, o, wn) ==
    [vi |-> w.vi, oi |-> w.oi, stage |-> stage, specs |-> specs,
     constraints |-> cons, subdir |-> sub, solved |-> solved,
     success |-> o.success, raised |-> o.raised, rx |-> o.run_exports,
     after |-> wn.pc, errors |-> wn.perrors, verdict |-> wn.psolvable]

\* the outcome recorded for a stage that has nothing to solve
NoSolve == [success |-> TRUE, raised |-> "", run_exports |-> DEFAULT_RUN_EXPORTS]

Record(v) == hist' = [hist EXCEPT !.visits = Append(@, v)]

TargetSubdir == <<w.platform, w.arch>>

\* BUILD: lines 325-364
StageBuild ==
    /\ Running("build")
    /\ LET m == inp.metas[w.oi]
           w0 == [w EXCEPT !.build_req = m.build, !.host_req = m.host,
                           !.run_req = m.run, !.run_constrained = m.run_constrained]
       IN IF m.build = <<>>
          THEN LET wn == Advance(w0, "build", TRUE)
               IN /\ w' = wn
                  /\ Record(Visit("build", <<>>, <<>>, w.bsub, FALSE, NoSolve, wn))
                  /\ UNCHANGED rxCache
          ELSE LET build_req == remove_reqs_by_name(m.build, OutNames)
               IN \E o \in MambaSolve(rxCache, w.bsub, build_req, TRUE,
                                      m.ignore_run_exports_from, m.ignore_run_exports, <<>>) :
                     LET w1 == [AfterSolve(w0, o) EXCEPT !.build_req = SolutionOrEmpty(o)]
                         wn == IF o.raised # "" THEN Raise(w0, o.raised)
                               ELSE Advance(BuildExports(m, w1, o.run_exports), "build", o.success)
                     IN /\ w' = wn
                        /\ Record(Visit("build", build_req, <<>>, w.bsub, TRUE, o, wn))
                        /\ rxCache' = o.cache
    /\ UNCHANGED <<inp, parent, pipe, call, ncalls, fx>>

\* a mutant of the HOST stage: the noarch flag of the output is not looked
\* at, its run requirements get the weak and strong run exports
StageHostNoarchUnseen ==
    /\ Running("host")
    /\ LET m == inp.metas[w.oi]
       IN IF w.host_req = <<>>
          THEN LET wn == Advance(w, "host", TRUE)
               IN /\ w' = wn
                  /\ Record(Visit("host", <<>>, <<>>, TargetSubdir, FALSE, NoSolve, wn))
                  /\ UNCHANGED rxCache
          ELSE LET host_req == remove_reqs_by_name(w.host_req, OutNames)
               IN \E o \in MambaSolve(rxCache, TargetSubdir, host_req, TRUE,
                                      m.ignore_run_exports_from, m.ignore_run_exports, <<>>) :
                     LET w1 == [AfterSolve(w, o) EXCEPT !.host_req = SolutionOrEmpty(o)]
                         wn == IF o.raised # "" THEN Raise(w, o.raised)
                               ELSE Advance(HostExports([m EXCEPT !.noarch = FALSE], w1, o.run_exports), "host", o.success)
                     IN /\ w' = wn
                        /\ Record(Visit("host", host_req, <<>>, TargetSubdir, TRUE, o, wn))
                        /\ rxCache' = o.cache
    /\ UNCHANGED <<inp, parent, pipe, call, ncalls, fx>>

\* HOST: lines 366-389
StageHost ==
    /\ Running("host")
    /\ LET m == inp.metas[w.oi]
       IN IF w.host_req = <<>>
          THEN LET wn == Advance(w, "host", TRUE)
               IN /\ w' = wn
                  /\ Record(Visit("host", <<>>, <<>>, TargetSubdir, FALSE, NoSolve, wn))
                  /\ UNCHANGED rxCache
          ELSE LET host_req == remove_reqs_by_name(w.host_req, OutNames)
               IN \E o \in MambaSolve(rxCache, TargetSubdir, host_req, TRUE,
                                      m.ignore_run_exports_from, m.ignore_run_exports, <<>>) :
                     LET w1 == [AfterSolve(w, o) EXCEPT !.host_req = SolutionOrEmpty(o)]
                         wn == IF o.raised # "" THEN Raise(w, o.raised)
                               ELSE Advance(HostExports(m, w1, o.run_exports), "host", o.success)
                     IN /\ w' = wn
                        /\ Record(Visit("host", host_req, <<>>, TargetSubdir, TRUE, o, wn))
                        /\ rxCache' = o.cache
    /\ UNCHANGED <<inp, parent, pipe, call, ncalls, fx>>

\* RUN: lines 391-402
StageRun ==
    /\ Running("run")
    /\ LET m == inp.metas[w.oi]
           run_constrained == apply_pins(w.run_constrained, w.host_req, w.build_req,
                                         OutNames, m)
           w0 == [w EXCEPT !.run_constrained = run_constrained]
       IN IF w.run_req = <<>>
          THEN LET wn == Advance(w0, "run", TRUE)
               IN /\ w' = wn
                  /\ Record(Visit("run", <<>>, run_constrained, TargetSubdir, FALSE, NoSolve, wn))
                  /\ UNCHANGED rxCache
          ELSE LET run_req == remove_reqs_by_name(
                                  apply_pins(w.run_req, w.host_req, w.build_req, OutNames, m),
                                  OutNames)
               IN \E o \in MambaSolve(rxCache, TargetSubdir, run_req, FALSE, <<>>, <<>>,
                                      run_constrained) :
                     LET w1 == [AfterSolve(w0, o) EXCEPT !.run_req = run_req]
                         wn == IF o.raised # "" THEN Raise(w0, o.raised)
                               ELSE Advance(w1, "run", o.success)
                     IN /\ w' = wn
                        /\ Record(Visit("run", run_req, run_constrained, TargetSubdir, TRUE, o, wn))
                        /\ rxCache' = o.cache
    /\ UNCHANGED <<inp, parent, pipe, call, ncalls, fx>>

\* a mutant of the TEST stage: the declared test requirements are solved
\* without the run requirements
StageTestDeclaredOnly ==
    /\ Running("test")
    /\ LET m == inp.metas[w.oi]
           tst_all == m.test_requires \o m.test_requirements
       IN IF tst_all = <<>>
          THEN LET wn == Advance(w, "test", TRUE)
               IN /\ w' = wn
                  /\ Record(Visit("test", <<>>, w.run_constrained, TargetSubdir, FALSE, NoSolve, wn))
                  /\ UNCHANGED rxCache
          ELSE LET tst_req == remove_reqs_by_name(tst_all, OutNames)
               IN \E o \in MambaSolve(rxCache, TargetSubdir, tst_req, FALSE, <<>>, <<>>,
                                      w.run_constrained) :
                     LET w1 == AfterSolve(w, o)
                         wn == IF o.raised # "" THEN Raise(w, o.raised)
                               ELSE Advance(w1, "test", o.success)
                     IN /\ w' = wn
                        /\ Record(Visit("test", tst_req, w.run_constrained, TargetSubdir, TRUE, o, wn))
                        /\ rxCache' = o.cache
    /\ UNCHANGED <<inp, parent, pipe, call, ncalls, fx>>

\* TEST: lines 404-416
StageTest ==
    /\ Running("test")
    /\ LET m == inp.metas[w.oi]
           tst_all == m.test_requires \o m.test_requirements \o w.run_req
       IN IF tst_all = <<>>
          THEN LET wn == Advance(w, "test", TRUE)
               IN /\ w' = wn
                  /\ Record(Visit("test", <<>>, w.run_constrained, TargetSubdir, FALSE, NoSolve, wn))
                  /\ UNCHANGED rxCache
          ELSE LET tst_req == remove_reqs_by_name(tst_all, OutNames)
               IN \E o \in MambaSolve(rxCache, TargetSubdir, tst_req, FALSE, <<>>, <<>>,
                                      w.run_constrained) :
                     LET w1 == AfterSolve(w, o)
                         wn == IF o.raised # "" THEN Raise(w, o.raised)
                               ELSE Advance(w1, "test", o.success)
                     IN /\ w' = wn
                        /\ Record(Visit("test", tst_req, w.run_constrained, TargetSubdir, TRUE, o, wn))
                        /\ rxCache' = o.cache
    /\ UNCHANGED <<inp, parent, pipe, call, ncalls, fx>>

\* d[k] = v
DictSet(d, k, v) == [x \in DOMAIN d \cup {k} |-> IF x = k THEN v ELSE d[x]]

\* a mutant of the extension of the errors: the errors of the variant are
\* put in front of those of the earlier variants
ExtendErrorsInFront(errors, cbc_name, _errors) ==
    [i \in 1..Len(_errors) |-> <<cbc_name, _errors[i]>>] \o errors

\* errors.extend([f"{cbc_name}: {e}" for e in _errors])
ExtendErrors(errors, cbc_name, _errors) ==
    errors \o [i \in 1..Len(_errors) |-> <<cbc_name, _errors[i]>>]

\* back in _is_recipe_solvable: lines 209-212
VariantEnd ==
    /\ Running("vend")
    /\ LET cbc_name == CbcName(inp.cbcs[w.vi])
       IN w' = [w EXCEPT
                  !.solvable = AndMerge(@, w.psolvable),
                  !.errors = ExtendErrors(@, cbc_name, w.perrors),
                  !.solvable_by_cbc = DictSet(@, cbc_name, w.psolvable),
                  !.vi = @ + 1,
                  !.pc = "loop"]
    /\ UNCHANGED <<inp, parent, pipe, hist, rxCache, call, ncalls, fx>>

\* _func: conn.send(res), or conn.send(e) for an exception
WorkerSend ==
    /\ WorkerMode
    /\ Running("ret") \/ Running("exc")
    /\ pipe' = IF w.pc = "ret" THEN <<[kind |-> "result", val |-> w.ret[1]]>>
               ELSE <<[kind |-> "exception", val |-> w.exc]>>
    /\ w' = [w EXCEPT !.pc = "exited"]
    /\ UNCHANGED <<inp, parent, hist, rxCache, call, ncalls, fx>>

\* a mutant of the end of the worker branch: the worker is joined without
\* waiting and left alone
ReapJoinOnly(wx) == wx

\* p.join(0); p.terminate(); p.kill(); p.close(): the worker, wherever it
\* is, does not take another step
Reap(wx) == [wx EXCEPT !.killed = TRUE]

\* parent_conn.poll(timeout) answers True: recv, then the worker is reaped
ParentRecv ==
    /\ parent.pc = "poll"
    /\ pipe # <<>>
    /\ parent' = [parent EXCEPT
                    !.pc = "done",
                    !.res = IF pipe[1].kind = "exception"
                            THEN Some(ExceptionResult(pipe[1].val))
                            ELSE Some(pipe[1].val)]
    /\ pipe' = <<>>
    /\ w' = Reap(w)
    /\ UNCHANGED <<inp, hist, rxCache, call, ncalls, fx>>

\* parent_conn.poll(timeout) answers False: nothing was sent in time; the
\* worker is terminated wherever it is
ParentTimeout ==
    /\ parent.pc = "poll"
    /\ pipe = <<>>
    /\ parent' = [parent EXCEPT !.pc = "done", !.res = Some(TimeoutResult)]
    /\ w' = Reap(w)
    /\ hist' = [hist EXCEPT !.timedOut = TRUE]
    /\ UNCHANGED <<inp, pipe, rxCache, call, ncalls, fx>>

\* the in-process call returns or raises into is_recipe_solvable's caller
InProcessReturn ==
    /\ ~WorkerMode
    /\ parent.pc = "call"
    /\ Running("ret") \/ Running("exc")
    /\ parent' = IF w.pc = "ret"
                 THEN [parent EXCEPT !.pc = "done", !.res = w.ret]
                 ELSE [parent EXCEPT !.pc = "raised", !.raised = w.exc]
    /\ w' = [w EXCEPT !.pc = "exited"]
    /\ UNCHANGED <<inp, pipe, hist, rxCache, call, ncalls, fx>>

Next ==
    \/ Start
    \/ Entry
    \/ Finish
    \/ LoopTimeout
    \/ VariantStart
    \/ StageBuild
    \/ StageHost
    \/ StageRun
    \/ StageTest
    \/ VariantEnd
    \/ WorkerSend
    \/ ParentRecv
    \/ ParentTimeout
    \/ InProcessReturn

Spec == InitDriver /\ [][Next]_vars

\* ------------------------------------------------------------------------
\* Channels: check_solvable.py 237-249, mamba_utils.py get_index and
\* load_channels, strict channel priority
\* ------------------------------------------------------------------------
RECURSIVE Flatten(_)
\* the concatenation of a list of lists
Flatten(ss) == IF ss = <<>> THEN <<>> ELSE Head(ss) \o Flatten(Tail(ss))

RECURSIVE OrderedUnique(_)
\* list(OrderedDict.fromkeys(l)): duplicates removed, first occurrences kept
OrderedUnique(l) ==
    IF l = <<>> THEN <<>>
    ELSE LET init == OrderedUnique(SubSeq(l, 1, Len(l) - 1))
         IN IF l[Len(l)] \in Range(init) THEN init ELSE Append(init, l[Len(l)])

\* the channel list of one variant. cbc_sources is None when the config has
\* no channel_sources key, else the list of its entries, each entry being
\* the list of channels its comma-separated string names
ChannelSources(cbc_sources, additional_channels) ==
    LET own == IF cbc_sources # None THEN Flatten(cbc_sources[1])
               ELSE <<"conda-forge", "defaults", "msys2">>
        withMsys == IF "msys2" \notin Range(own) THEN Append(own, "msys2") ELSE own
    IN IF additional_channels # <<>> THEN additional_channels \o withMsys ELSE withMsys

\* context.channels, which get_index appends when prepend is true
ContextChannels == <<"defaults">>

\* get_index: one entry per channel and per subdir of [platform, "noarch"],
\* channel after channel in the order of the deduplicated list
GetIndex(channels, platform) ==
    LET all_channels == OrderedUnique(channels \o ContextChannels)
    IN Flatten([i \in 1..Len(all_channels) |->
                  << [channel |-> all_channels[i], platform |-> platform],
                     [channel |-> all_channels[i], platform |-> "noarch"] >>])

\* a mutant of load_channels: the priority grows from one channel to the next
LoadChannelsAscending(index) ==
    LET changes(i) == Cardinality({j \in 2..i : index[j].channel # index[j - 1].channel})
    IN [i \in 1..Len(index) |->
          [channel |-> index[i].channel, platform |-> index[i].platform,
           priority |-> 1 + changes(i), subpriority |-> 0]]

\* load_channels with has_priority=True: the priority and subpriority given
\* to the repo of each index entry; channel_prio starts at the number of
\* channels and drops by one each time the channel name changes
LoadChannels(index) ==
    LET n_channels == Cardinality({index[i].channel : i \in 1..Len(index)})
        changes(i) == Cardinality({j \in 2..i : index[j].channel # index[j - 1].channel})
    IN [i \in 1..Len(index) |->
          [channel |-> index[i].channel, platform |-> index[i].platform,
           priority |-> n_channels - changes(i), subpriority |-> 0]]

\* ChannelPriority.kStrict: the repos the engine takes the candidates of a
\* package from are those of highest priority among the repos that hold it
StrictCandidateRepos(repos, providers) ==
    LET holding == {i \in 1..Len(repos) : repos[i].channel \in providers}
    IN {i \in holding : \A j \in holding : repos[j].priority <= repos[i].priority}

\* MambaSolver(channels, platform) for the channels of one variant, and the
\* repos the engine may take a package from that `providers` hold
CallLoadChannels ==
    LET AdditionalChannelInputs == { <<>>, <<"vpkgs">>, <<"extra", "vpkgs">> }
        CbcSourceInputs ==
            { None,
              Some(<< <<"conda-forge">> >>),
              Some(<< <<"conda-forge/label/rc", "conda-forge">> >>),
              Some(<< <<"extra", "conda-forge">> >>),
              Some(<< <<"defaults">>, <<"msys2", "conda-forge">> >>) }
        ChannelNames ==
            {"vpkgs", "extra", "conda-forge", "conda-forge/label/rc", "defaults", "msys2"}
        Loaded(additional, cbc, providers, channels, repos) ==
            [fn |-> "load_channels", additional |-> additional, cbc |-> cbc,
             channels |-> channels, repos |-> repos, providers |-> providers,
             chosen |-> {repos[i].channel : i \in StrictCandidateRepos(repos, providers)}]
        Load(additional, cbc, providers, channels) ==
            Loaded(additional, cbc, providers, channels,
                   LoadChannels(GetIndex(channels, "linux-64")))
    IN /\ fx.fn = "idle"
       /\ \E additional \in AdditionalChannelInputs, cbc \in CbcSourceInputs,
             providers \in SUBSET ChannelNames :
             fx' = Load(additional, cbc, providers, ChannelSources(cbc, additional))
       /\ UNCHANGED <<rxCache, call, ncalls, dvars>>
\* ------------------------------------------------------------------------
\* utils.py: get_run_exports under functools.lru_cache(maxsize=10240)
\* ------------------------------------------------------------------------
\* the size of the least-recently-used cache around get_run_exports
maxsize == 10240

\* calls of get_run_exports explored in one process
MaxRxCalls == 4

\* a mutant of the channel data lookup: a package name the channel data
\* does not list counts as a package without run exports
_has_run_exports_unlisted_is_no(cd, filename) ==
    LET name == filename[1]
        ver == filename[2]
    IN IF cd.packages = None THEN TRUE
       ELSE IF name \notin DOMAIN cd.packages[1] THEN FALSE
       ELSE IF cd.packages[1][name].run_exports = None THEN TRUE
       ELSE ver \in cd.packages[1][name].run_exports[1]

\* _has_run_exports_in_channel_data for the channel data cd and the file
\* name <<name, version, build>> (filename.rsplit("-", 1) twice). cd is
\* the record of its optional "packages" mapping, from names to records of
\* an optional "run_exports" mapping, of which the versions are kept
_has_run_exports_in_channel_data(cd, filename) ==
    LET name == filename[1]
        ver == filename[2]
    IN IF cd.packages = None THEN TRUE
       ELSE IF name \notin DOMAIN cd.packages[1] THEN TRUE
       ELSE IF cd.packages[1][name].run_exports = None THEN TRUE
       ELSE ver \in cd.packages[1][name].run_exports[1]

\* the environments of one call: what each source and the channel data
\* lookup would do if asked; the answers of the three sources differ so that
\* the record tells which one was used. filename is the file of the
\* target pair, a-1-0.conda; cd is what the channel data
\* download gives: an exception, or a content that has no packages key,
\* does not list the package, lists it without run_exports, with
\* run_exports of another version, or with run_exports of the version
RxEnvs ==
    LET EmptyMapping == [kind |-> "map", map |-> <<>>]
        filename == <<"a", "1", "0">>
        Listed(rx) == Some([n \in {"a"} |-> [run_exports |-> rx]])
        ChannelData ==
            {[st |-> "raise", packages |-> None],
             [st |-> "ok", packages |-> None],
             [st |-> "ok", packages |-> Some([n \in {"b"} |-> [run_exports |-> Some({"1"})]])],
             [st |-> "ok", packages |-> Listed(None)],
             [st |-> "ok", packages |-> Listed(Some({"2"}))],
             [st |-> "ok", packages |-> Listed(Some({"1", "2"}))]}
        Lookup(cd) == IF cd.st = "raise" THEN "raise"
                      ELSE IF _has_run_exports_in_channel_data(cd, filename) THEN "yes"
                      ELSE "no"
        JsonAnswers ==
            {[kind |-> "map", map |-> [weak |-> {<<"a1">>}, other |-> {<<"zz">>}]], EmptyMapping}
        InfoAnswers == {[kind |-> "list", list |-> << <<"a2">> >>], EmptyMapping}
        DownloadAnswers == {[kind |-> "str", str |-> <<"a3">>], EmptyMapping}
    IN {[json |-> json, channeldata |-> Lookup(cd), cd |-> cd, info |-> info,
         download |-> download, filename |-> filename] :
           json \in {NoAnswer, Raises} \cup {Answer(a) : a \in JsonAnswers},
           cd \in ChannelData,
           info \in {NoAnswer} \cup {Answer(a) : a \in InfoAnswers},
           download \in {NoAnswer} \cup {Answer(a) : a \in DownloadAnswers}}

Unfetched == [st |-> "unfetched"]

\* The cache as seen from one pair, the target: held says whether its entry
\* is in the cache, newer counts the distinct other pairs used since the
\* target was last used (the entries the cache would evict after it), rec is
\* the cached record, resolved says whether a call for the target has
\* returned before, n counts the steps. json and channeldata are what the
\* functools.cache of _fetch_json_zst and of _download_channeldata hold for
\* the target's channel: nothing yet, or what the file fetched says about
\* the target.
FreshRx ==
    [fn |-> "rx", held |-> FALSE, newer |-> 0, rec |-> DEFAULT_RUN_EXPORTS,
     resolved |-> FALSE, n |-> 0, json |-> Unfetched, channeldata |-> "unfetched",
     cd |-> Unfetched, last |-> [key |-> "none"]]

\* the body reads the channel data when run_exports.json gave None
ChannelDataRead(env) == env.json = NoAnswer

\* what a run of the body reaches outside the process: a file the
\* functools.cache holds is not fetched again, the metadata service and the
\* download are asked every time the body gets to them
AskedOutside(env, json, channeldata) ==
    (IF json = Unfetched THEN {"json"} ELSE {}) \cup
    (IF ChannelDataRead(env) /\ channeldata = "unfetched" THEN {"channeldata"} ELSE {}) \cup
    (Range(ResolveRunExports(env).queried) \cap {"info", "download"})

\* get_run_exports(target pair): a hit returns the cached record and makes
\* the entry the most recently used; a miss runs the body, and caches the
\* record unless an exception left the body
GetRunExportsTarget ==
    /\ fx.fn = "rx"
    /\ fx.n < MaxRxCalls
    /\ \E env \in RxEnvs :
         LET r == ResolveRunExports(env)
         IN /\ fx.json # Unfetched => env.json = fx.json
            /\ fx.channeldata # "unfetched" => env.cd = fx.cd
            /\ IF fx.held
               THEN fx' = [fx EXCEPT !.newer = 0, !.n = @ + 1,
                              !.last = [key |-> "target", hit |-> TRUE, env |-> env,
                                        queried |-> <<>>, asked |-> {}, raised |-> "",
                                        record |-> fx.rec, before |-> fx.resolved]]
               ELSE fx' = [fx EXCEPT !.held = (r.raised = ""), !.newer = 0, !.n = @ + 1,
                              !.rec = IF r.raised = "" THEN r.record ELSE @,
                              !.resolved = @ \/ r.raised = "",
                              !.json = IF env.json = Raises THEN @ ELSE env.json,
                              !.channeldata = IF ChannelDataRead(env) /\ env.channeldata # "raise"
                                              THEN env.channeldata ELSE @,
                              !.cd = IF ChannelDataRead(env) /\ env.channeldata # "raise"
                                     THEN env.cd ELSE @,
                              !.last = [key |-> "target", hit |-> FALSE, env |-> env,
                                        queried |-> r.queried, asked |-> AskedOutside(env, fx.json, fx.channeldata),
                                        raised |-> r.raised,
                                        record |-> r.record, before |-> fx.resolved]]
    /\ UNCHANGED <<rxCache, call, ncalls, dvars>>

\* get_run_exports for k other pairs, none of them used since the target
\* was: each takes a place in front of the target's entry, and the k-th
\* insertion into a full cache whose least recently used entry is the
\* target's evicts it
GetRunExportsOthers ==
    /\ fx.fn = "rx"
    /\ fx.n < MaxRxCalls
    /\ \E k \in {1, maxsize - 1} :
         LET newer == IF fx.newer + k > maxsize THEN maxsize ELSE fx.newer + k
         IN fx' = [fx EXCEPT !.newer = IF fx.held THEN newer ELSE 0,
                             !.held = @ /\ newer < maxsize,
                             !.n = @ + 1,
                             !.last = [key |-> "other", count |-> k]]
    /\ UNCHANGED <<rxCache, call, ncalls, dvars>>

InitRx ==
    /\ rxCache = EmptyCache
    /\ call = NoCall
    /\ ncalls = 0
    /\ inp = IdleInp
    /\ parent = IdleParent
    /\ w = IdleW
    /\ pipe = <<>>
    /\ hist = IdleHist
    /\ fx = FreshRx

NextRx ==
    \/ GetRunExportsTarget
    \/ GetRunExportsOthers

SpecRx == InitRx /\ [][NextRx]_vars

\* ------------------------------------------------------------------------
\* utils.py: _convert_run_exports_to_canonical_form on its own
\* ------------------------------------------------------------------------
\* _convert_run_exports_to_canonical_form on what an artifact may carry as
\* run_exports: nothing, one string, a flat list, or a mapping from keys to
\* lists, the keys being bucket names or one key that is no bucket
CallConvertRunExports ==
    LET MappingKeys == BucketNames \cup {"other"}
        RawRunExports ==
            {NoRx, [kind |-> "str", str |-> <<"a">>]} \cup
            {[kind |-> "list", list |-> l] :
                l \in {<<>>, << <<"a">> >>, << <<"a">>, <<"b", "1">> >>, << <<"a">>, <<"a">> >>}} \cup
            {[kind |-> "map",
              map |-> [k \in K |-> IF k = "strong" THEN {} ELSE {<<k, "1">>, <<"a">>}]] :
                K \in SUBSET MappingKeys}
    IN /\ fx.fn = "idle"
       /\ \E rx \in RawRunExports :
            fx' = [fn |-> "_convert_run_exports_to_canonical_form", rx |-> rx,
                   out |-> _convert_run_exports_to_canonical_form(rx)]
       /\ UNCHANGED <<rxCache, call, ncalls, dvars>>
\* ------------------------------------------------------------------------
\* utils.py: _munge_req_star and convert_spec_to_conda_build on their own
\* ------------------------------------------------------------------------
\* the versions given to the two functions: one, two or three clauses joined
\* by "," and "|", written without blanks or with blanks around the second
\* clause, as in ">=1.1|5| >=5 , <10 |19.0"
VersionInputs ==
    LET Clauses ==
            { <<"1", ".", "1">>, <<"=", "1", ".", "1">>, <<"=", "=", "1", ".", "1">>,
              <<">", "=", "1", ".", "1">>, <<"<", "10">>, <<"!", "=", "2">>,
              <<"~", "=", "1", ".", "1">>, <<"1", ".", "1", "*">>, <<"1", ".", "*">>, <<"*">>,
              <<"5">>, <<">", "1">>, <<"<", "=", "3">> }
        FewClauses ==
            { <<"5">>, <<"=", "1", ".", "1">>, <<">", "=", "5">>, <<"<", "10">>,
              <<"1", ".", "*">> }
        Separators == {<<",">>, <<"|">>}
        Two(C, pad) == {a \o s \o pad \o b \o pad : a \in C, s \in Separators, b \in C}
        Three(C, pad) ==
            {a \o s \o pad \o b \o pad \o t \o c :
                a \in C, s \in Separators, b \in C, t \in Separators, c \in C}
    IN Clauses \cup Two(Clauses, <<>>) \cup Three(FewClauses, <<>>)
               \cup Two(Clauses, <<" ">>) \cup Three(FewClauses, <<" ">>)

\* _munge_req_star(req), also on versions with an empty clause and on "= 1.1"
CallMungeReqStar ==
    /\ fx.fn = "idle"
    /\ \E req \in VersionInputs \cup {<<"1", ".", "1", ",">>, <<"|", "5">>, <<>>,
                                      <<"=", " ", "1", ".", "1">>} :
         fx' = [fn |-> "_munge_req_star", req |-> req, out |-> _munge_req_star(req)]
    /\ UNCHANGED <<rxCache, call, ncalls, dvars>>

\* convert_spec_to_conda_build(myspec), and the function again on its
\* result; myspec is a name followed by a version and possibly a build
CallConvertSpec ==
    LET Operated == {<<"=", "1", ".", "1">>, <<">", "=", "1", ".", "1">>,
                     <<"=", "=", "1", ".", "1">>}
        SpecStringInputs ==
            {<<"blah", " ">> \o v \o b : v \in VersionInputs, b \in {<<>>, <<" ", "*_osx">>}} \cup
            {<<"blah">> \o v \o b : v \in Operated,
                                    b \in {<<>>, <<" ", "*_osx">>, <<"=", "py_0">>}} \cup
            {<<"blah">>, <<"q", "[", "build", "=", "b", "]">>,
             <<"blah", " ", "1", ".", "2", "[", "build", "=", "b", "]">>}
    IN /\ fx.fn = "idle"
       /\ \E myspec \in SpecStringInputs :
            LET Applied(once) ==
                    [fn |-> "convert_spec_to_conda_build", myspec |-> myspec, once |-> once,
                     twice |-> IF once.raised = "" THEN convert_spec_to_conda_build(once.out)
                               ELSE once]
            IN fx' = Applied(convert_spec_to_conda_build(myspec))
       /\ UNCHANGED <<rxCache, call, ncalls, dvars>>
\* ------------------------------------------------------------------------
\* utils.py: pin_compatible
\* ------------------------------------------------------------------------
NoPin == RangePin(<<>>, <<>>, "")

\* _apply_pin_compatible(version, build, lower_bound, upper_bound, min_pin,
\* max_pin, exact); None and "" are both <<>> for a version or a bound and 0
\* for a pin expression. With an upper bound, `compatibility` is only bound
\* under `if min_pin or lower_bound` before `compatibility += ...` reads it.
_apply_pin_compatible(version, build, lower_bound, upper_bound, min_pin, max_pin, exact) ==
    IF exact THEN [raised |-> "", out |-> ExactPin(version, build)]
    ELSE LET _version == IF lower_bound # <<>> THEN lower_bound ELSE version
         IN IF _version = <<>> THEN [raised |-> "ValueError", out |-> NoPin]
            ELSE IF upper_bound # <<>>
            THEN (IF min_pin # 0 \/ lower_bound # <<>>
                  THEN [raised |-> "", out |-> RangePin(<<_version>>, <<upper_bound>>, "")]
                  ELSE [raised |-> "UnboundLocalError", out |-> NoPin])
            ELSE [raised |-> "", out |-> apply_pin_expressions(_version, min_pin, max_pin)]

\* the arguments of the calls: version and build of the resolved
\* dependency, the bounds, the pin expressions (6 is the default
\* "x.x.x.x.x.x", 1 the default "x", 0 is None or "") and the exact flag
\* _apply_pin_compatible on a version of three numbers or none, with and
\* without a build, bounds and pins
CallApplyPinCompatible ==
    LET PinCompatibleInputs ==
            [version : {<<1, 2, 3>>, <<>>}, build : {<<"h24524543_0">>, <<>>},
             lower_bound : {<<>>, <<1, 2, 4>>}, upper_bound : {<<>>, <<1, 2, 5>>},
             min_pin : {PinDefaults[1], 2, 0}, max_pin : {PinDefaults[2], 2, 0},
             exact : BOOLEAN]
        Applied(a, r) ==
            [fn |-> "_apply_pin_compatible", args |-> a, raised |-> r.raised, out |-> r.out]
    IN /\ fx.fn = "idle"
       /\ \E a \in PinCompatibleInputs :
            fx' = Applied(a, _apply_pin_compatible(a.version, a.build, a.lower_bound,
                                                   a.upper_bound, a.min_pin, a.max_pin,
                                                   a.exact))
       /\ UNCHANGED <<rxCache, call, ncalls, dvars>>
\* _strip_quotes
_strip_quotes(s) ==
    IF Len(s) >= 2 /\ s[1] = s[Len(s)] /\ s[1] \in {"'", "\""}
    THEN SubSeq(s, 2, Len(s) - 1) ELSE s

\* the text of a number and the number of a text, for the version numbers
\* of the model
Digits == 0 :> "0" @@ 1 :> "1" @@ 2 :> "2" @@ 3 :> "3" @@ 4 :> "4" @@ 5 :> "5" @@ 6 :> "6" @@ 7 :> "7" @@ 8 :> "8" @@ 9 :> "9"

\* str(version): "1.2.3" for <<1, 2, 3>>
VersionWords(version) == Join([i \in 1..Len(version) |-> <<Digits[version[i]]>>], <<".">>)

\* the numbers of a version text
NumbersOf(text) ==
    LET words == SelectSeq(text, LAMBDA c : c # ".")
    IN [i \in 1..Len(words) |-> CHOOSE n \in DOMAIN Digits : Digits[n] = words[i]]

\* the text of a pin, as _apply_pin_compatible returns it
PinWords(pin) ==
    IF pin.kind = "exact"
    THEN Strip(VersionWords(pin.lower) \o <<" ">> \o pin.build)
    ELSE (IF pin.lower = <<>> THEN <<>> ELSE <<">", "=">> \o VersionWords(pin.lower[1]))
         \o (IF pin.lower # <<>> /\ pin.upper # <<>> THEN <<",">> ELSE <<>>)
         \o (IF pin.upper = <<>> THEN <<>>
             ELSE <<"<">> \o VersionWords(pin.upper[1])
                  \o (IF pin.tail = "" THEN <<>> ELSE <<".", "0a0">>))

\* req.rsplit(")", 1): the text before the last ")" and the build after it
PinSplit(req) ==
    LET close == {i \in 1..Len(req) : req[i] = ")"}
        i == CHOOSE i \in close : \A j \in close : j <= i
    IN IF close = {} THEN [head |-> req, build |-> <<>>]
       ELSE [head |-> SubSeq(req, 1, i - 1), build |-> Strip(SubSeq(req, i + 1, Len(req)))]

\* the comma separated parts between "pin_compatible(" and the last ")"
PinParts(req) == SplitTok(SplitTok(PinSplit(req).head, "pin_compatible(")[2], ",")

PinName(req) == _strip_quotes(Strip(PinParts(req)[1]))

\* {req.split(" ")[0]: req.split(" ")[1:] for req in host_reqs}
HostLookup(host_reqs) ==
    [nm \in {SplitTok(host_reqs[i], " ")[1] : i \in 1..Len(host_reqs)} |->
        LET i == CHOOSE i \in 1..Len(host_reqs) :
                    /\ SplitTok(host_reqs[i], " ")[1] = nm
                    /\ \A j \in (i+1)..Len(host_reqs) : SplitTok(host_reqs[j], " ")[1] # nm
        IN Tail(SplitTok(host_reqs[i], " "))]

PinArgNames == <<"lower_bound", "upper_bound", "min_pin", "max_pin", "exact">>

\* the call _apply_pin_compatible(host_version, host_build, *args, **kwargs)
\* with the texts parsed from the expression: a part with "=" is a keyword
\* argument, any other a positional one; every value is a text, so that any
\* non-empty text given for exact is true
ApplyParsedPin(host_version, host_build, parts) ==
    LET isKw(p) == "=" \in Range(p)
        args == SelectSeq(parts, LAMBDA p : ~isKw(p))
        kws == SelectSeq(parts, LAMBDA p : isKw(p))
        key(p) == Strip(SplitTok(p, "=")[1])
        val(p) == _strip_quotes(Strip(SplitTok(p, "=")[2]))
        given(k) == {i \in 1..Len(kws) : key(kws[i]) = <<PinArgNames[k]>>}
        has(k) == k <= Len(args) \/ given(k) # {}
        text(k) == IF k <= Len(args) THEN Strip(args[k])
                   ELSE LET i == CHOOSE i \in given(k) : \A j \in given(k) : j <= i
                        IN val(kws[i])
        xs(t) == Len(SelectSeq(t, LAMBDA c : c = "x"))
    IN IF \E i \in 1..Len(kws) : Len(SplitTok(kws[i], "=")) # 2
       THEN [raised |-> "ValueError", out |-> NoPin]
       ELSE IF \/ Len(args) > Len(PinArgNames)
               \/ \E i \in 1..Len(kws) : \A k \in 1..Len(PinArgNames) : key(kws[i]) # <<PinArgNames[k]>>
               \/ \E k \in 1..Len(PinArgNames) : k <= Len(args) /\ given(k) # {}
       THEN [raised |-> "TypeError", out |-> NoPin]
       ELSE _apply_pin_compatible(
                NumbersOf(host_version), host_build,
                IF has(1) THEN NumbersOf(text(1)) ELSE <<>>,
                IF has(2) THEN NumbersOf(text(2)) ELSE <<>>,
                IF has(3) THEN xs(text(3)) ELSE PinDefaults[1],
                IF has(4) THEN xs(text(4)) ELSE PinDefaults[2],
                has(5) /\ text(5) # <<>>)

\* a mutant of the lenient fallback: the build string is dropped
UnpinnedReqBare(name, build) == name

\* the requirement a pin expression becomes when the package is not among
\* the host requirements or has no version there: name + " * " + build, or
\* the name alone
UnpinnedReq(name, build) ==
    IF build # <<>> THEN name \o <<" ", "*", " ">> \o build ELSE name

\* "exact=true" in req.lower()
SaysExactTrue(req) ==
    \E i \in 1..(Len(req) - 2) :
        req[i] = "exact" /\ req[i+1] = "=" /\ req[i+2] \in {"True", "true"}

\* the body of the loop of replace_pin_compatible for one requirement
ReplaceOne(req, host_lookup, strict) ==
    IF "pin_compatible(" \notin Range(req) THEN [raised |-> "", out |-> req]
    ELSE IF req[1] # "pin_compatible(" THEN [raised |-> "ValueError", out |-> <<>>]
    ELSE LET build == PinSplit(req).build
             name == PinName(req)
         IN IF name \notin DOMAIN host_lookup \/ host_lookup[name] = <<>>
            THEN (IF strict THEN [raised |-> "ValueError", out |-> <<>>]
                  ELSE [raised |-> "", out |-> UnpinnedReq(name, build)])
            ELSE LET host_version == host_lookup[name][1]
                     host_build == IF Len(host_lookup[name]) > 1 THEN host_lookup[name][2]
                                   ELSE <<>>
                     r == ApplyParsedPin(host_version, host_build, Tail(PinParts(req)))
                 IN IF Len(host_lookup[name]) > 1 /\ build # <<>> /\ SaysExactTrue(req)
                    THEN [raised |-> "ValueError", out |-> <<>>]
                    ELSE IF r.raised # "" THEN [raised |-> r.raised, out |-> <<>>]
                    ELSE [raised |-> "",
                          out |-> Strip(name \o <<" ">> \o PinWords(r.out) \o <<" ">> \o build)]

RECURSIVE ReplaceFrom(_, _, _)
\* the loop over reqs: the first exception ends it
ReplaceFrom(reqs, host_lookup, strict) ==
    IF reqs = <<>> THEN [raised |-> "", out |-> <<>>]
    ELSE LET r == ReplaceOne(Head(reqs), host_lookup, strict)
             rest == ReplaceFrom(Tail(reqs), host_lookup, strict)
         IN IF r.raised # "" THEN [raised |-> r.raised, out |-> <<>>]
            ELSE IF rest.raised # "" THEN rest
            ELSE [raised |-> "", out |-> <<r.out>> \o rest.out]

\* replace_pin_compatible(reqs, host_reqs, strict)
replace_pin_compatible(reqs, host_reqs, strict) ==
    ReplaceFrom(reqs, HostLookup(host_reqs), strict)

\* "pin_compatible('name'<args>)<tail>"
PinReq(name, args, tail) ==
    <<"pin_compatible(", "'", name, "'">> \o args \o <<")">> \o tail

\* replace_pin_compatible on lists of one to three requirements: the five of
\* test_replace_pin_compatible, pins of a package that is no host
\* requirement (zap) or has no version there (nov), plain requirements and
\* one with the expression in the middle
CallReplacePinCompatible ==
    LET ReqPool ==
            { PinReq("foo", <<>>, <<" ", "mpi_*">>),
              PinReq("bar", <<",", " ", "exact", "=", "True">>, <<>>),
              PinReq("baz", <<",", " ", "upper_bound", "=", "'", "3", ".", "8", "'">>, <<>>),
              PinReq("baz", <<",", " ", "lower_bound", "=", "3", ".", "5", ",", " ",
                              "upper_bound", "=", "'", "3", ".", "8", "'">>, <<>>),
              PinReq("foo", <<",", " ", "max_pin", "=", "'", "x", ".", "x", "'">>, <<>>),
              PinReq("zap", <<>>, <<" ", "mpi_*">>),
              PinReq("zap", <<",", " ", "max_pin", "=", "'", "x", ".", "x", "'">>, <<>>),
              PinReq("nov", <<>>, <<" ", "b_1">>),
              PinReq("nov", <<>>, <<>>),
              <<"numpy", " ", ">", "=", "1">>,
              <<"python">>,
              <<"x", " ">> \o PinReq("foo", <<>>, <<>>) }
        ReqListInputs ==
            {<<a>> : a \in ReqPool} \cup {<<a, b>> : a \in ReqPool, b \in ReqPool}
            \cup {<<a, b, c>> : a \in ReqPool,
                                b \in {<<"python">>, PinReq("zap", <<>>, <<" ", "mpi_*">>)},
                                c \in ReqPool}
        HostReqInputs ==
            { << <<"foo", " ", "1", ".", "2", ".", "3", " ", "5">>,
                 <<"bar", " ", "2", ".", "3", " ", "1">>,
                 <<"baz", " ", "3", ".", "4", " ", "h5678_1">>,
                 <<"nov">> >>,
              <<>> }
        Replaced(reqs, host_reqs, strict, r) ==
            [fn |-> "replace_pin_compatible", reqs |-> reqs, host_reqs |-> host_reqs,
             strict |-> strict, raised |-> r.raised, out |-> r.out]
    IN /\ fx.fn = "idle"
       /\ \E reqs \in ReqListInputs, host_reqs \in HostReqInputs, strict \in BOOLEAN :
            fx' = Replaced(reqs, host_reqs, strict,
                           replace_pin_compatible(reqs, host_reqs, strict))
       /\ UNCHANGED <<rxCache, call, ncalls, dvars>>
\* ------------------------------------------------------------------------
\* utils.py constants and virtual_packages.py: the channel of virtual
\* packages. A version is the sequence of its numbers ("10.9" is <<10, 9>>),
\* a FakePackage the record of its name, version, build string and
\* timestamp, a repodata entry the record of name, version and build that
\* makes its file name.
\* ------------------------------------------------------------------------
MAX_FUTURE_VERSION == 20

ALL_PLATFORMS ==
    {"linux-aarch64", "linux-ppc64le", "linux-64", "osx-64", "osx-arm64", "win-64"}

MINIMUM_CUDA_VERS ==
    {<<9, 2>>, <<10, 0>>, <<10, 1>>, <<10, 2>>, <<11, 0>>, <<11, 1>>, <<11, 2>>,
     <<11, 3>>, <<11, 4>>, <<11, 5>>, <<11, 6>>, <<11, 7>>, <<11, 8>>}
    \cup {<<cuda_major, cuda_minor>> : cuda_major \in 12..(MAX_FUTURE_VERSION - 1),
                                       cuda_minor \in 0..(MAX_FUTURE_VERSION - 1)}

MINIMUM_OSX_64_VERS == {<<10, minor>> : minor \in 9..16}

MINIMUM_OSX_ARM64_VERS ==
    MINIMUM_OSX_64_VERS
    \cup {<<osx_major, osx_minor>> : osx_major \in 11..(MAX_FUTURE_VERSION - 1),
                                     osx_minor \in 0..(MAX_FUTURE_VERSION - 1)}

\* virtual_package_repodata(): what repodata.write() puts into the
\* repodata.json of each subdir, as the set of its entries. cuda_query is
\* the outcome of the conda search (an exception, or the versions found),
\* clock gives the second at which the packages of each block are made
\* (FakePackage.timestamp is part of equality and hash).
virtual_package_repodata(cuda_query, clock) ==
    LET FakePackage(name, version, build_string, at) ==
            [name |-> name, version |-> version, build_string |-> build_string,
             timestamp |-> clock[at]]
        \* to_repodata_entry: build is the build number 0, after the build
        \* string when there is one
        to_repodata_entry(pkg) ==
            [name |-> pkg.name, version |-> pkg.version,
             build |-> IF pkg.build_string # "" THEN pkg.build_string \o "_0" ELSE "0"]
        \* add_package for each package of pkgs: packages_by_subdir[package]
        \* gains the subdirs, noarch when none is given
        Add(packages_by_subdir, pkgs, subdirs) ==
            LET sd == IF subdirs = {} THEN {"noarch"} ELSE subdirs
            IN [p \in DOMAIN packages_by_subdir \cup pkgs |->
                   (IF p \in DOMAIN packages_by_subdir THEN packages_by_subdir[p] ELSE {})
                   \cup (IF p \in pkgs THEN sd ELSE {})]
        SubdirStartsWith(subdir, os) ==
            CASE os = "win" -> subdir \in {"win-64"}
              [] os = "linux" -> subdir \in {"linux-aarch64", "linux-ppc64le", "linux-64"}
        cuda_vers == (IF cuda_query.kind = "raise" THEN {} ELSE cuda_query.vers)
                     \cup MINIMUM_CUDA_VERS
        r0 == [p \in {} |-> {}]
        r1 == Add(r0, {FakePackage("__glibc", <<2, glibc_minor>>, "", "glibc") :
                          glibc_minor \in 12..MAX_GLIBC_MINOR}, {})
        r2 == Add(r1, {FakePackage("__cuda", cuda_ver, "", "cuda") : cuda_ver \in cuda_vers}, {})
        r3 == Add(r2, {FakePackage("__osx", osx_ver, "", "osx_64") :
                          osx_ver \in MINIMUM_OSX_64_VERS}, {"osx-64"})
        r4 == Add(r3, {FakePackage("__osx", osx_ver, "", "osx_arm64") :
                          osx_ver \in MINIMUM_OSX_ARM64_VERS}, {"osx-arm64", "osx-64"})
        r5 == Add(r4, {FakePackage("__win", <<0>>, "", "markers")},
                  {s \in ALL_PLATFORMS : SubdirStartsWith(s, "win")})
        r6 == Add(r5, {FakePackage("__linux", <<0>>, "", "markers")},
                  {s \in ALL_PLATFORMS : SubdirStartsWith(s, "linux")})
        r7 == Add(r6, {FakePackage("__unix", <<0>>, "", "markers")},
                  {s \in ALL_PLATFORMS : ~SubdirStartsWith(s, "win")})
        \* write: every platform, noarch and every subdir in use
        Write(packages_by_subdir) ==
            [subdir \in ALL_PLATFORMS \cup {"noarch"}
                        \cup UNION {packages_by_subdir[p] : p \in DOMAIN packages_by_subdir} |->
                {to_repodata_entry(p) : p \in {q \in DOMAIN packages_by_subdir :
                                      subdir \in packages_by_subdir[q]}}]
    IN Write(r7)

\* rattler_solver.py virtual_packages_repodata(): the list of
\* GenericVirtualPackage(name, version, build string) handed to rattler's
\* solve, as a set
virtual_packages_repodata(cuda_query) ==
    LET Generic(name, vers, build) ==
            {[name |-> name, version |-> v, build |-> build] : v \in vers}
        cuda_vers == (IF cuda_query.kind = "raise" THEN {} ELSE cuda_query.vers)
                     \cup {<<9, 2>>, <<10, 0>>, <<10, 1>>, <<10, 2>>, <<11, 0>>, <<11, 1>>,
                           <<11, 2>>, <<11, 3>>, <<11, 4>>, <<11, 5>>, <<11, 6>>, <<11, 7>>,
                           <<11, 8>>, <<12, 0>>, <<12, 1>>, <<12, 2>>, <<12, 3>>, <<12, 4>>,
                           <<12, 5>>}
    IN Generic("__glibc", {<<2, glibc_minor>> : glibc_minor \in 12..MAX_GLIBC_MINOR}, "0")
       \cup Generic("__cuda", cuda_vers, "0")
       \cup Generic("__osx", {<<10, minor>> : minor \in 9..16}, "0")
       \cup Generic("__osx", {<<osx_major, osx_minor>> : osx_major \in 11..16,
                                                         osx_minor \in 0..16}, "0")
       \cup UNION {Generic("__archspec", {<<1>>}, arch) :
                      arch \in {"x86", "x86_64", "aarch64", "armv6l", "armv7l", "ppc64le",
                                "ppc64", "s390x", "riscv32", "riscv64"}}
       \cup UNION {Generic(pkg, {<<0>>}, "0") : pkg \in {"__win", "__unix", "__linux"}}

\* one call of virtual_package_repodata and of virtual_packages_repodata,
\* and the solves of test_solvers_archspec_with_virtual_package for a
\* package that depends on __archspec: a solver for the platform loads the
\* platform subdir and noarch of each channel, conda-forge holding the
\* package and no virtual package
CallVirtualPackageRepodata ==
    LET CudaQueries == {[kind |-> "raise", vers |-> {}],
                        [kind |-> "list", vers |-> {}],
                        [kind |-> "list", vers |-> {<<11, 8>>, <<12, 6>>, <<20, 1>>}]}
        \* the second of the clock at each block of additions: the clock
        \* ticks between the two loops over the osx versions, or not
        Clocks == {[at \in {"glibc", "cuda", "osx_64", "osx_arm64", "markers"} |->
                       IF at \in {"glibc", "cuda", "osx_64"} THEN 0 ELSE tick] : tick \in {0, 1}}
        DependsMet(job, loaded) ==
            \E p \in loaded : /\ p.name = job
                              /\ \A d \in p.depends : \E q \in loaded : q.name = d
        Registry(cuda_query, clock, platform) ==
            LET index == virtual_package_repodata(cuda_query, clock)
                conda_forge == {[name |-> "pythia8", depends |-> {"__archspec"}]}
                LoadedOf(ix) == {[name |-> e.name, depends |-> {}] :
                                  e \in ix[platform] \cup ix["noarch"]}
            IN [fn |-> "virtual_package_repodata", cuda_query |-> cuda_query,
                clock |-> clock, platform |-> platform, index |-> index,
                memory |-> virtual_packages_repodata(cuda_query),
                solved_without |-> DependsMet("pythia8", conda_forge),
                solved_with |-> DependsMet("pythia8", LoadedOf(index) \cup conda_forge)]
    IN /\ fx.fn = "idle"
       /\ \E cuda_query \in CudaQueries, clock \in Clocks, platform \in ALL_PLATFORMS :
             fx' = Registry(cuda_query, clock, platform)
       /\ UNCHANGED <<rxCache, call, ncalls, dvars>>

\* ------------------------------------------------------------------------
\* Helper-function specification: one call of one helper function
\* ------------------------------------------------------------------------
InitUtils ==
    /\ rxCache = EmptyCache
    /\ call = NoCall
    /\ ncalls = 0
    /\ inp = IdleInp
    /\ parent = IdleParent
    /\ w = IdleW
    /\ pipe = <<>>
    /\ hist = IdleHist
    /\ fx = IdleFx

NextUtils ==
    \/ CallLoadChannels
    \/ CallConvertRunExports
    \/ CallMungeReqStar
    \/ CallConvertSpec
    \/ CallApplyPinCompatible
    \/ CallReplacePinCompatible
    \/ CallVirtualPackageRepodata

SpecUtils == InitUtils /\ [][NextUtils]_vars

\* ------------------------------------------------------------------------
\* Claims about is_recipe_solvable
\* ------------------------------------------------------------------------
Returned == parent.pc = "done"

ParentResult == parent.res[1]

\* the run of _is_recipe_solvable went through every config file and
\* returned from the end of the function
RanToEnd ==
    /\ w.ret # None
    /\ ~hist.timedOut
    /\ Len(inp.cbcs) > 0
    /\ inp.hasMeta

Visits == hist.visits

FailedSolve(v) == v.solved /\ v.raised = "" /\ ~v.success

\* C1: in worker mode, when the worker delivered nothing within the
\* timeout, is_recipe_solvable returns exactly (True, [], {}), whatever the
\* worker had computed.
C1_TimeoutYieldsSolvable ==
    (WorkerMode /\ Returned /\ hist.timedOut) =>
        /\ ParentResult.solvable = TRUE
        /\ ParentResult.errors = <<>>
        /\ ParentResult.solvable_by_variant = <<>>

\* C1 witness: the parent timed out while the worker held an unsolvable
\* verdict with errors that it had not sent yet
C1_Witness ==
    /\ WorkerMode /\ Returned /\ hist.timedOut
    /\ w.killed /\ w.pc = "ret"
    /\ ~w.ret[1].solvable
    /\ w.ret[1].errors # <<>>

\* C2: with no config file, or with config files but no recipe/meta.yaml,
\* _is_recipe_solvable renders nothing, solves nothing, raises nothing and
\* returns (False, [one message], {}); the message is the one about the
\* config files whenever there is none, whether or not the manifest exists.
C2_StructuralShortCircuit ==
    (Len(inp.cbcs) = 0 \/ ~inp.hasMeta) =>
        /\ hist.renders = 0
        /\ Visits = <<>>
        /\ w.exc = ""
        /\ w.ret # None =>
              /\ w.ret[1].solvable = FALSE
              /\ w.ret[1].solvable_by_variant = <<>>
              /\ Len(w.ret[1].errors) = 1
              /\ w.ret[1].errors[1] = IF Len(inp.cbcs) = 0
                                      THEN <<"No .ci_support yaml files found!">>
                                      ELSE <<"No recipe meta.yaml file found!">>

\* C2 witness: a feedstock with neither config files nor manifest returned
C2_Witness ==
    /\ Len(inp.cbcs) = 0
    /\ ~inp.hasMeta
    /\ w.ret # None

\* the base name of a config file without its extension: every file of the
\* catalog ends in ".yaml"
BaseNameNoExt(f) == SubSeq(f, 1, Len(f) - 2)

\* C3: on a run that is not cut short, solvable_by_variant has one entry
\* per config file, keyed by the base name without extension; an entry is
\* False exactly when a solve of that variant failed; the overall flag is
\* the AND of the entries.
C3_VerdictsPerVariant ==
    RanToEnd =>
        LET by == w.ret[1].solvable_by_variant
            n == Len(inp.cbcs)
        IN /\ DOMAIN by = {BaseNameNoExt(inp.cbcs[i]) : i \in 1..n}
           /\ Cardinality(DOMAIN by) = n
           /\ \A i \in 1..n :
                 by[BaseNameNoExt(inp.cbcs[i])] =
                     ~(\E k \in 1..Len(Visits) :
                          Visits[k].vi = i /\ FailedSolve(Visits[k]))
           /\ w.ret[1].solvable = (\A key \in DOMAIN by : by[key])

\* C3 witness: two variants, one solvable and one not
C3_Witness ==
    /\ RanToEnd
    /\ Len(inp.cbcs) = 2
    /\ \E a, b \in DOMAIN w.ret[1].solvable_by_variant :
          /\ w.ret[1].solvable_by_variant[a]
          /\ ~w.ret[1].solvable_by_variant[b]
    /\ ~w.ret[1].solvable

\* C4: whenever is_recipe_solvable returns solvable == True its errors list
\* is empty.
C4_SolvableHasNoErrors ==
    (Returned /\ ParentResult.solvable) => ParentResult.errors = <<>>

\* C4 witness: a run with successful solves returned solvable
C4_Witness ==
    /\ Returned
    /\ ~hist.timedOut
    /\ ParentResult.solvable
    /\ \E k \in 1..Len(Visits) : Visits[k].solved /\ Visits[k].success

\* the stage position that follows the one of history entry v
SuccessorOf(v) ==
    CASE v.stage = "build" -> [vi |-> v.vi, oi |-> v.oi, stage |-> "host"]
      [] v.stage = "host" -> [vi |-> v.vi, oi |-> v.oi, stage |-> "run"]
      [] v.stage = "run" -> [vi |-> v.vi, oi |-> v.oi, stage |-> "test"]
      [] OTHER -> IF v.oi < Len(inp.metas)
                  THEN [vi |-> v.vi, oi |-> v.oi + 1, stage |-> "build"]
                  ELSE [vi |-> v.vi + 1, oi |-> 1, stage |-> "build"]

PositionOf(v) == [vi |-> v.vi, oi |-> v.oi, stage |-> v.stage]

\* the errors of the variant before history entry k was made
ErrorsBefore(k) ==
    IF k > 1 /\ Visits[k - 1].vi = Visits[k].vi THEN Visits[k - 1].errors ELSE <<>>

\* C5: a failed solve sets the verdict to False, appends one error and lets
\* the pipeline go on: the next stage of the output (or the next output, or
\* the end of the variant) follows, stages with requirements are solved,
\* a run that returns from the end has gone through every stage of every
\* output of every variant, and no unsatisfiable solve raises.
C5_FailedSolveContinues ==
    /\ \A k \in 1..Len(Visits) :
          LET v == Visits[k]
          IN /\ FailedSolve(v) =>
                  /\ v.verdict = FALSE
                  /\ Len(v.errors) = Len(ErrorsBefore(k)) + 1
                  /\ v.after = IF v.stage = "test"
                               THEN (IF v.oi < Len(inp.metas) THEN "build" ELSE "vend")
                               ELSE SuccessorOf(v).stage
                  /\ k < Len(Visits) => PositionOf(Visits[k + 1]) = SuccessorOf(v)
             /\ Len(v.specs) > 0 => v.solved
             /\ (v.solved /\ v.raised # "") =>
                   \E s \in Range(v.specs) \cup Range(v.constraints) : Malformed(s)
    /\ RanToEnd =>
          /\ Len(Visits) = Len(inp.cbcs) * Len(inp.metas) * 4
          /\ \A k \in 1..(Len(Visits) - 1) :
                PositionOf(Visits[k + 1]) = SuccessorOf(Visits[k])

\* C5 witness: a BUILD solve failed, the HOST and RUN stages of the same
\* output were solved after it, a later variant was processed and the run
\* returned from the end
C5_Witness ==
    /\ RanToEnd
    /\ \E k \in 1..Len(Visits) :
          /\ Visits[k].stage = "build"
          /\ FailedSolve(Visits[k])
          /\ k + 2 <= Len(Visits)
          /\ Visits[k + 1].solved
          /\ Visits[k + 2].solved
          /\ \E j \in (k + 1)..Len(Visits) : Visits[j].vi > Visits[k].vi

\* C6: for every output whose HOST stage solved, each weak_constrains and
\* strong_constrains entry of the host run exports is among the constraints
\* given to the RUN and TEST solves of that output, cross-compiling or not.
C6_HostConstrainsReachRunAndTest ==
    \A k, j \in 1..Len(Visits) :
        ( /\ Visits[k].stage = "host"
          /\ Visits[k].solved
          /\ Visits[k].raised = ""
          /\ Visits[j].vi = Visits[k].vi
          /\ Visits[j].oi = Visits[k].oi
          /\ Visits[j].stage \in {"run", "test"}
          /\ Visits[j].solved )
        => (Visits[k].rx["weak_constrains"] \cup Visits[k].rx["strong_constrains"])
              \subseteq Range(Visits[j].constraints)

\* ------------------------------------------------------------------------
\* Claims about the solvers
\* ------------------------------------------------------------------------
CallDone == call.backend # "none"

CallSpecsWellFormed ==
    \A x \in Range(call.specs) \cup Range(call.constraints) : ~Malformed(x)

CallJobs == {ConvertSpec(x) : x \in Range(call.specs)}

CallPins == {ConvertSpec(x) : x \in Range(call.constraints)}

CallSolution == IF call.solution = None THEN {} ELSE Range(call.solution[1])

\* C7: every solve of well-formed specs returns; it returns err = None and a
\* solution exactly when solvable is True, and when solvable is False an
\* explanation, no solution and (if requested) all-empty run exports.
C7_SolveResultShape ==
    (CallDone /\ CallSpecsWellFormed) =>
        /\ call.raised = ""
        /\ call.success <=> (call.err = None /\ call.solution # None)
        /\ ~call.success =>
              /\ call.err # None
              /\ call.solution = None
              /\ call.get_run_exports => call.run_exports = DEFAULT_RUN_EXPORTS

\* a name some spec asks for itself or through every package matching it
NeededName(platform, jobs, nm) ==
    \E j \in jobs :
        \/ MatchSpecName(j) = nm
        \/ \A p \in Index(platform) :
              Satisfies(p, j) => \E d \in p.depends : MatchSpecName(d) = nm

\* C8: constraints restrict versions but never install: every solution
\* package is reachable from the specs (so a package named only in the
\* constraints is absent), every solution package with a constraint on its
\* name satisfies it, and two constraints on a needed package that no
\* version satisfies together make the solve unsolvable.
C8_ConstraintsRestrictNeverInstall ==
    (call.backend = "mamba" /\ call.raised = "") =>
        LET idx == Index(call.platform)
            reach == NameClosure(idx, {MatchSpecName(j) : j \in CallJobs})
        IN /\ \A e \in CallSolution :
                 /\ SpecName(e) \in reach
                 /\ \A c \in CallPins :
                       MatchSpecName(c) = SpecName(e) => Satisfies(PkgOf(e), c)
           /\ \A c1, c2 \in CallPins :
                 ( /\ MatchSpecName(c1) = MatchSpecName(c2)
                   /\ NeededName(call.platform, CallJobs, MatchSpecName(c1))
                   /\ ~\E p \in idx : Satisfies(p, c1) /\ Satisfies(p, c2) )
                 => ~call.success

\* C8 witness: simplejson solved under constraints on python and zeromq:
\* python is pinned to the constrained version although a newer one is in
\* the index, zeromq stays out
C8_Witness ==
    /\ call.backend = "mamba"
    /\ call.platform = Sub("linux", "64")
    /\ call.specs = << <<"sj">> >>
    /\ call.constraints = << <<"py", "=1">>, <<"zq", "=1">> >>
    /\ call.success
    /\ <<"py", "1", "0">> \in CallSolution
    /\ \A e \in CallSolution : SpecName(e) # "zq"

\* C9 (stated for calls that ignore no run export): the aggregate is the
\* bucket-wise union of the run exports of the solved packages that are
\* named by a spec and not named in ignore_run_exports_from.
C9_AggregateIsUnionOfContributors ==
    ( /\ call.backend = "mamba" /\ call.raised = "" /\ call.success
      /\ call.get_run_exports /\ call.ignore_run_exports = <<>> ) =>
        LET contrib == {p \in call.link :
                          /\ p.name \in {MatchSpecName(j) : j \in CallJobs}
                          /\ p.name \notin {MatchSpecName(x) :
                                               x \in Range(call.ignore_run_exports_from)}}
        IN \A k \in BucketNames :
              call.run_exports[k] =
                  UNION {SourceRunExports(FileName(p))[k] : p \in contrib}

\* C10: no export entry whose package name is in ignore_run_exports
\* reaches the aggregate, entries with a version constraint included.
C10_NoIgnoredNameInAggregate ==
    ( /\ call.backend = "mamba" /\ call.raised = "" /\ call.success
      /\ call.get_run_exports ) =>
        \A k \in BucketNames : \A v \in call.run_exports[k] :
            SpecName(v) \notin {MatchSpecName(x) : x \in Range(call.ignore_run_exports)}

\* ------------------------------------------------------------------------
\* Claims about the helper functions
\* ------------------------------------------------------------------------
\* the position of the first occurrence of x in the list l
FirstIndex(l, x) == CHOOSE i \in 1..Len(l) : l[i] = x /\ \A j \in 1..(i - 1) : l[j] # x

\* C11: a repo of an earlier-listed channel has a strictly higher priority
\* than a repo of a later-listed channel, the subdirs of one channel share
\* one priority, the additional channels come before the variant's own
\* channel sources, and no candidate is taken from a channel when an
\* earlier-listed channel holds the package.
C11_ChannelPriorityFollowsListing ==
    fx.fn = "load_channels" =>
        LET listed == fx.channels \o ContextChannels
            pos(c) == FirstIndex(listed, c)
        IN /\ \A i, j \in 1..Len(fx.repos) :
                 /\ pos(fx.repos[i].channel) < pos(fx.repos[j].channel)
                       => fx.repos[i].priority > fx.repos[j].priority
                 /\ fx.repos[i].channel = fx.repos[j].channel
                       => fx.repos[i].priority = fx.repos[j].priority
           /\ \A a \in Range(fx.additional) :
                 /\ a \in Range(fx.channels)
                 /\ \A c \in Range(fx.channels) \ Range(fx.additional) :
                       pos(a) < pos(c)
           /\ \A c \in fx.chosen :
                 /\ c \in fx.providers
                 /\ \A e \in fx.providers \cap Range(listed) : pos(c) <= pos(e)

\* C11 witness: an additional channel and conda-forge both hold the
\* package and the candidates come from the additional channel
C11_Witness ==
    /\ fx.fn = "load_channels"
    /\ fx.additional = <<"extra", "vpkgs">>
    /\ {"extra", "conda-forge"} \subseteq fx.providers
    /\ fx.chosen = {"extra"}


\* the last call was a call for the target pair that ran the body
RxMiss == fx.fn = "rx" /\ fx.last.key = "target" /\ ~fx.last.hit

\* what a source answered in the environment of the last call
RxAnswerOf(src) ==
    CASE src = "json" -> fx.last.env.json
      [] src = "info" -> fx.last.env.info
      [] OTHER -> fx.last.env.download

\* C12: get_run_exports asks run_exports.json, then the artifact metadata
\* service, then the artifact download; a source is asked only when every
\* earlier one answered None, and the record returned is the canonical form
\* of the first answer that is not None, an empty mapping being an answer.
C12_SourcesInOrderFirstAnswerWins ==
    (RxMiss /\ fx.last.raised = "") =>
        LET q == fx.last.queried
            answered == {i \in 1..Len(q) : RxAnswerOf(q[i]).st = "ok"}
        IN /\ q \in {<<"json">>, <<"json", "info">>, <<"json", "info", "download">>}
           /\ \A i \in 1..Len(q) : \A j \in 1..(i-1) : RxAnswerOf(q[j]).st = "none"
           /\ fx.last.record =
                IF answered = {} THEN DEFAULT_RUN_EXPORTS
                ELSE LET i == CHOOSE i \in answered : \A j \in answered : i <= j
                     IN _convert_run_exports_to_canonical_form(RxAnswerOf(q[i]).val)

\* the second source answered an empty mapping after the first answered
\* None, and the download was not asked
C12_Witness ==
    /\ RxMiss
    /\ fx.last.raised = ""
    /\ fx.last.queried = <<"json", "info">>
    /\ fx.last.env.info = Answer([kind |-> "map", map |-> <<>>])
    /\ fx.last.env.download.st = "ok"
    /\ fx.last.record = DEFAULT_RUN_EXPORTS

\* C13: no network or parse failure of a source or of the channel data
\* lookup leaves get_run_exports as an exception; when no source gives an
\* answer the call returns the all-empty record.
C13_NoSourceFailureRaises ==
    RxMiss =>
        /\ fx.last.raised = ""
        /\ (\A i \in 1..Len(fx.last.queried) : RxAnswerOf(fx.last.queried[i]).st # "ok")
              => fx.last.record = DEFAULT_RUN_EXPORTS

\* C14: once a call for the pair has returned, no later call for the same
\* pair asks a source, whatever number of other pairs was resolved between.
C14_ResolvedPairNeverQueriedAgain ==
    (fx.fn = "rx" /\ fx.last.key = "target" /\ fx.last.before) =>
        fx.last.asked \cap {"json", "info", "download"} = {}


\* C15: _convert_run_exports_to_canonical_form returns a record with exactly
\* the five buckets: all empty for None, the string as the one weak entry for
\* a string, the entries as weak entries for a flat list, each list under
\* its bucket for a mapping; a key that is no bucket adds nothing anywhere.
C15_CanonicalFormHasFiveBuckets ==
    fx.fn = "_convert_run_exports_to_canonical_form" =>
        LET rx == fx.rx
            out == fx.out
            others == BucketNames \ {"weak"}
        IN /\ DOMAIN out = {"weak", "strong", "noarch", "weak_constrains", "strong_constrains"}
           /\ rx.kind = "none" => \A k \in DOMAIN out : out[k] = {}
           /\ rx.kind = "str" => out.weak = {rx.str} /\ \A k \in others : out[k] = {}
           /\ rx.kind = "list" =>
                /\ out.weak = {rx.list[i] : i \in 1..Len(rx.list)}
                /\ \A k \in others : out[k] = {}
           /\ rx.kind = "map" =>
                \A k \in DOMAIN out :
                    /\ k \in DOMAIN rx.map => out[k] = rx.map[k]
                    /\ k \notin DOMAIN rx.map => out[k] = {}

\* a mapping with a key that is no bucket next to the weak bucket
C15_Witness ==
    /\ fx.fn = "_convert_run_exports_to_canonical_form"
    /\ fx.rx.kind = "map"
    /\ DOMAIN fx.rx.map = {"weak", "other"}
    /\ fx.out.weak = fx.rx.map["weak"]
    /\ fx.rx.map["other"] # {}


\* C16: normalization is idempotent: for every spec convert_spec_to_conda_build
\* accepts, converting the result again gives the result.
C16_ConvertSpecIdempotent ==
    (fx.fn = "convert_spec_to_conda_build" /\ fx.once.raised = "") =>
        /\ fx.twice.raised = ""
        /\ fx.twice.out = fx.once.out

\* a spec with blanks, "=" and bare clauses that the conversion changes
C16_Witness ==
    /\ fx.fn = "convert_spec_to_conda_build"
    /\ fx.myspec = <<"blah", " ", "=", "1", ".", "1", "|", " ", "5", " ", ",", "<", "10">>
    /\ fx.once = [raised |-> "", out |-> <<"blah", " ", "1", ".", "1", ".", "*", "|", "5",
                                          ".", "*", ",", "<", "10">>]
    /\ fx.twice = fx.once

RECURSIVE ClausesOf(_)
\* the clauses of a version, split at every "," and "|"
ClausesOf(v) ==
    IF \A i \in 1..Len(v) : v[i] \notin {",", "|"} THEN <<v>>
    ELSE LET i == CHOOSE i \in 1..Len(v) :
                     v[i] \in {",", "|"} /\ \A j \in 1..(i-1) : v[j] \notin {",", "|"}
         IN <<SubSeq(v, 1, i-1)>> \o ClausesOf(SubSeq(v, i+1, Len(v)))

\* the separators of a version, in order
SeparatorsOf(v) == SelectSeq(v, LAMBDA c : c \in {",", "|"})

\* a clause without its surrounding blanks starts with one of the operators
\* that keep it as it is, or holds a star
KeptAsIs(c) ==
    \/ c # <<>> /\ c[1] \in {">", "<"}
    \/ Len(c) >= 2 /\ <<c[1], c[2]>> \in {<<"!", "=">>, <<"=", "=">>, <<"~", "=">>}
    \/ \E i \in 1..Len(c) : c[i] = "*"

BuildWithoutVersion(s) ==
    LET m == MatchSpec(SpecText(s)) IN m.build # <<>> /\ m.version = <<>>

\* C18: a solve whose specs or constraints hold a spec with a build string
\* and no version raises RuntimeError out of convert_spec_to_conda_build;
\* the exception is not booked as a solve error, no further stage runs and
\* _is_recipe_solvable does not return: it leaves by the exception.
C18_BuildWithoutVersionIsFatal ==
    \A k \in 1..Len(Visits) :
        LET v == Visits[k]
        IN (v.solved /\ \E s \in Range(v.specs) \cup Range(v.constraints) :
                             BuildWithoutVersion(s)) =>
              /\ v.raised = "RuntimeError"
              /\ v.after = "exc"
              /\ v.errors = ErrorsBefore(k)
              /\ k = Len(Visits)
              /\ w.ret = None
              /\ w.exc = "RuntimeError"
              /\ (~WorkerMode /\ parent.pc # "call") =>
                    parent.pc = "raised" /\ parent.raised = "RuntimeError"

\* C18 witness: the RUN solve of an output met the spec after an earlier
\* stage of the output was solved, and the in-process call raised
C18_Witness ==
    /\ ~WorkerMode
    /\ parent.pc = "raised"
    /\ parent.raised = "RuntimeError"
    /\ Len(Visits) >= 2
    /\ Visits[Len(Visits)].stage = "run"
    /\ Visits[Len(Visits)].specs = <<BuildNoVersionSpec>>
    /\ Visits[Len(Visits) - 1].solved
    /\ convert_spec_to_conda_build(SpecText(BuildNoVersionSpec)).raised = "RuntimeError"


\* C19: with exact false and an upper bound, _apply_pin_compatible returns
\* ">=B,<upper_bound", B being lower_bound if given and the resolved version
\* otherwise, whatever min_pin and max_pin are; with exact true it returns
\* the version and the build and no range.
C19_PinCompatibleBounds ==
    fx.fn = "_apply_pin_compatible" =>
        LET a == fx.args
            B == IF a.lower_bound # <<>> THEN a.lower_bound ELSE a.version
        IN /\ (~a.exact /\ a.upper_bound # <<>> /\ B # <<>>) =>
                 /\ fx.raised = ""
                 /\ fx.out.kind = "range"
                 /\ fx.out.lower = <<B>>
                 /\ fx.out.upper = <<a.upper_bound>>
                 /\ fx.out.tail = ""
           /\ (a.exact /\ a.version # <<>> /\ a.build # <<>>) =>
                 /\ fx.raised = ""
                 /\ fx.out.kind = "exact"
                 /\ fx.out.lower = a.version
                 /\ fx.out.build = a.build
                 /\ fx.out.upper = <<>>


\* the requirement holds a pin expression
IsPinReq(req) == \E i \in 1..Len(req) : req[i] = "pin_compatible("

\* the host requirements give a version for the name
HostHasVersion(host_reqs, name) ==
    \E j \in 1..Len(host_reqs) :
        LET words == SplitTok(host_reqs[j], " ")
        IN words[1] = name /\ Len(words) >= 2

\* C20: a pin_compatible(name, ...) requirement whose name is no host
\* requirement, or one without a version, becomes "name * build" when a
\* build string follows the expression and the bare name otherwise, and the
\* remaining requirements are processed, when strict is false; it raises
\* when strict is true; a requirement without a pin expression comes out
\* unchanged at its place.
C20_PinOfAbsentPackage ==
    fx.fn = "replace_pin_compatible" =>
        LET reqs == fx.reqs
            plain(i) == ~IsPinReq(reqs[i])
            unpinned(i) == /\ IsPinReq(reqs[i])
                           /\ reqs[i][1] = "pin_compatible("
                           /\ ~HostHasVersion(fx.host_reqs, PinName(reqs[i]))
            build(i) == PinSplit(reqs[i]).build
        IN /\ fx.raised = "" =>
                /\ Len(fx.out) = Len(reqs)
                /\ \A i \in 1..Len(reqs) :
                     /\ plain(i) => fx.out[i] = reqs[i]
                     /\ unpinned(i) =>
                           /\ ~fx.strict
                           /\ fx.out[i] = IF build(i) # <<>>
                                          THEN PinName(reqs[i]) \o <<" ", "*", " ">> \o build(i)
                                          ELSE PinName(reqs[i])
           /\ (fx.strict /\ \E i \in 1..Len(reqs) : unpinned(i)) => fx.raised = "ValueError"
           /\ (~fx.strict /\ \A i \in 1..Len(reqs) : plain(i) \/ unpinned(i)) => fx.raised = ""

\* a pin of a package that is no host requirement, with a build string, a
\* plain requirement and a pin of a package without a version, in lenient mode
C20_Witness ==
    /\ fx.fn = "replace_pin_compatible"
    /\ ~fx.strict
    /\ fx.host_reqs # <<>>
    /\ fx.reqs = <<PinReq("zap", <<>>, <<" ", "mpi_*">>), <<"python">>, PinReq("nov", <<>>, <<>>)>>
    /\ fx.raised = ""
    /\ fx.out = << <<"zap", " ", "*", " ", "mpi_*">>, <<"python">>, <<"nov">> >>


\* ------------------------------------------------------------------------
\* Claims about the virtual packages
\* ------------------------------------------------------------------------
\* the registry was built
RegistryBuilt == fx.fn = "virtual_package_repodata"

\* the subdirs whose repodata holds an entry for the package
SubdirsOf(index, name, version) ==
    {subdir \in DOMAIN index : \E e \in index[subdir] : e.name = name /\ e.version = version}

\* C21: in the index written for the virtual packages, every __osx version
\* of the legacy list 10.9 to 10.16 is in the repodata of osx-64 and of no
\* other subdir, and every generated __osx version, 11.0 and above, is in
\* the repodata of osx-64 and of osx-arm64.
C21_LegacyOsxOnlyInOsx64 ==
    RegistryBuilt =>
        /\ \A minor \in 9..16 : SubdirsOf(fx.index, "__osx", <<10, minor>>) = {"osx-64"}
        /\ \A subdir \in DOMAIN fx.index : \A e \in fx.index[subdir] :
              (e.name = "__osx" /\ e.version[1] >= 11) =>
                  SubdirsOf(fx.index, "__osx", e.version) = {"osx-64", "osx-arm64"}
        /\ \E e \in fx.index["osx-arm64"] : e.name = "__osx" /\ e.version[1] >= 11

\* C22: the index written for the virtual packages holds an __archspec
\* entry for each of the ten architecture names, and a solve of a package
\* that depends on __archspec succeeds with the index among the channels
\* and fails without it.
C22_ArchspecInRegistry ==
    RegistryBuilt =>
        /\ \A arch \in {"x86", "x86_64", "aarch64", "armv6l", "armv7l", "ppc64le",
                        "ppc64", "s390x", "riscv32", "riscv64"} :
              \E subdir \in DOMAIN fx.index : \E e \in fx.index[subdir] :
                  e.name = "__archspec" /\ (e.build = arch \/ e.build = arch \o "_0")
        /\ fx.solved_with
        /\ ~fx.solved_without

\* ------------------------------------------------------------------------
\* Claims about the stages of _is_recipe_solvable_on_platform
\* ------------------------------------------------------------------------
\* the platform and arch the config file of a history entry names
OwnSubdir(v) ==
    LET pa == ParsePlatformArch(inp.cbcs[v.vi])
    IN <<pa.platform, pa.arch>>

\* C23: the BUILD solve of a variant runs on the build platform, which is
\* the entry of the build_platform mapping under "<platform>_<arch>" when
\* there is one and the variant's own platform and arch otherwise; the
\* HOST, RUN and TEST solves run on the variant's own platform and arch.
C23_BuildSolveOnBuildPlatform ==
    \A k \in 1..Len(Visits) :
        LET v == Visits[k]
            own == OwnSubdir(v)
            key == own[1] \o <<"_">> \o own[2]
            override == SplitTok(inp.build_platform[key], "_")
        IN v.solved =>
              IF v.stage = "build" /\ key \in DOMAIN inp.build_platform
              THEN v.subdir = <<override[1], override[2]>>
              ELSE v.subdir = own

\* C23 witness: an osx-arm64 variant built on osx-64: the BUILD solve ran
\* and succeeded on osx-64, the HOST solve of the same output ran on
\* osx-arm64
C23_Witness ==
    \E k, j \in 1..Len(Visits) :
        /\ Visits[k].stage = "build" /\ Visits[k].solved /\ Visits[k].success
        /\ OwnSubdir(Visits[k]) = << <<"osx">>, <<"arm64">> >>
        /\ Visits[k].subdir = << <<"osx">>, <<"64">> >>
        /\ Visits[j].stage = "host" /\ Visits[j].solved
        /\ Visits[j].vi = Visits[k].vi /\ Visits[j].oi = Visits[k].oi
        /\ Visits[j].subdir = << <<"osx">>, <<"arm64">> >>

\* the errors of variant vi when its last history entry was made
VariantErrors(vi) ==
    LET ks == {k \in 1..Len(Visits) : Visits[k].vi = vi}
    IN IF ks = {} THEN <<>>
       ELSE Visits[CHOOSE k \in ks : \A j \in ks : j <= k].errors

\* C24: each failed solve adds one entry, the explanation of that solve, at
\* the end of the errors of its variant, and nothing else adds or removes
\* an entry, so the entries of a variant stand in pipeline order; the list
\* returned from the end of the loop holds, variant after variant in the
\* order of the sorted config files, each entry of the variant as the pair
\* of the config name and the explanation.
C24_ErrorsPrefixedAndOrdered ==
    /\ \A k \in 1..Len(Visits) :
          LET v == Visits[k]
          IN v.errors = IF FailedSolve(v)
                        THEN Append(ErrorsBefore(k),
                                    Explanation([i \in 1..Len(v.specs) |-> ConvertSpec(v.specs[i])]))
                        ELSE ErrorsBefore(k)
    /\ RanToEnd =>
          w.ret[1].errors =
              Flatten([vi \in 1..Len(inp.cbcs) |->
                          [i \in 1..Len(VariantErrors(vi)) |->
                              <<CbcName(inp.cbcs[vi]), VariantErrors(vi)[i]>>]])

\* C24 witness: two variants, the first with two failed solves of different
\* jobs and the second with one, returned as three entries
C24_Witness ==
    /\ RanToEnd
    /\ Len(inp.cbcs) = 2
    /\ Len(VariantErrors(1)) = 2
    /\ VariantErrors(1)[1] # VariantErrors(1)[2]
    /\ Len(VariantErrors(2)) >= 1
    /\ Len(w.ret[1].errors) = Len(VariantErrors(1)) + Len(VariantErrors(2))

\* C25: in worker mode, once is_recipe_solvable has returned (a result was
\* delivered, the worker sent an exception, or the poll timed out) the
\* worker has been terminated, and a terminated worker takes no further
\* step: no stage is visited and nothing is sent after the return.
C25_WorkerTerminatedOnReturn ==
    /\ [](WorkerMode /\ Returned => w.killed)
    /\ [][WorkerMode /\ Returned => w' = w /\ hist'.visits = hist.visits /\ pipe' = pipe]_vars

\* a call timed out while its worker was in the middle of a variant, after
\* a first stage and before the last, and the worker was stopped there
C25_Witness ==
    /\ WorkerMode /\ Returned /\ hist.timedOut
    /\ ParentResult = TimeoutResult
    /\ w.killed /\ w.pc \in {"host", "run", "test"}
    /\ Len(Visits) >= 1

\* the place of a stage in the loop body
StageRank(stage) ==
    CASE stage = "build" -> 1 [] stage = "host" -> 2
      [] stage = "run" -> 3 [] stage = "test" -> 4

\* the requirement list a stage finds when the worker reaches it
ListAtStage(stage) ==
    LET m == inp.metas[w.oi]
    IN CASE stage = "build" -> m.build
         [] stage = "host" -> w.host_req
         [] stage = "run" -> w.run_req
         [] stage = "test" -> m.test_requires \o m.test_requirements \o w.run_req

\* a step of the worker that goes through one stage of one output
StageStep == Len(hist'.visits) = Len(hist.visits) + 1

\* the package names of a requirement list
ReqNames(reqs) == {SpecName(reqs[i]) : i \in 1..Len(reqs)}

\* C26: the stages of an output are gone through in the order BUILD, HOST,
\* RUN, TEST, each output starting with BUILD; the solve of a stage is
\* invoked exactly when the list the stage finds is non-empty (the declared
\* build requirements; the host and run requirements as the earlier stages
\* left them, run exports added; the test requirements followed by the run
\* requirements), and the packages it is asked for are those of that list.
C26_StagesInOrderOnNonEmptyLists ==
    /\ [](\A k \in 1..Len(Visits) :
            LET v == Visits[k]
            IN IF k > 1 /\ Visits[k-1].vi = v.vi /\ Visits[k-1].oi = v.oi
               THEN StageRank(v.stage) = StageRank(Visits[k-1].stage) + 1
               ELSE v.stage = "build")
    /\ [][StageStep =>
            LET v == hist'.visits[Len(hist'.visits)]
                reqs == ListAtStage(w.pc)
            IN /\ v.stage = w.pc /\ v.vi = w.vi /\ v.oi = w.oi
               /\ v.solved <=> (reqs # <<>>)
               /\ ReqNames(v.specs) \subseteq ReqNames(reqs)
               /\ ReqNames(reqs) \ (OutNames \cup PROBLEMATIC_REQS) \subseteq ReqNames(v.specs)]_vars

\* C26 witness: an output that declares build requirements only went
\* through the four stages, and each of them solved: HOST, RUN and TEST on
\* what the run exports of the BUILD environment added
C26_Witness ==
    \E k \in 1..Len(Visits) :
        /\ k + 3 <= Len(Visits)
        /\ inp.metas[Visits[k].oi].host = <<>> /\ inp.metas[Visits[k].oi].run = <<>>
        /\ inp.metas[Visits[k].oi].test_requires = <<>>
        /\ \A j \in 0..3 : /\ Visits[k+j].solved
                           /\ Visits[k+j].oi = Visits[k].oi /\ Visits[k+j].vi = Visits[k].vi
                           /\ StageRank(Visits[k+j].stage) = j + 1
        /\ Visits[k+1].specs # <<>> /\ Visits[k+2].specs # <<>> /\ Visits[k+3].specs # <<>>

\* a step through the stage named, in which the solve was invoked and
\* returned
SolvedStep(stage) ==
    /\ StageStep /\ w.pc = stage
    /\ hist'.visits[Len(hist'.visits)].solved
    /\ hist'.visits[Len(hist'.visits)].raised = ""

\* the elements of a list
AsSet(l) == {l[i] : i \in 1..Len(l)}

\* C27: after a BUILD solve, with build_rx the run exports it returned and
\* the three lists read as sets: run_constrained is the declared one plus
\* strong_constrains, plus weak_constrains for a native, not noarch output
\* whose build is host; host_req is the declared one, plus strong for a
\* cross output and for a native, not noarch output whose build is not
\* host; run_req is the declared one, plus strong for a cross output that
\* is not noarch, plus noarch for a native noarch output whose build is
\* host, plus strong for a native output that is not noarch, with weak as
\* well when its build is host. Nothing else is added and nothing removed.
C27_BuildRunExportsByFlags ==
    [][SolvedStep("build") =>
         LET m == inp.metas[w.oi]
             build_rx == hist'.visits[Len(hist'.visits)].rx
             native == ~m.is_cross
             none == {}
         IN /\ AsSet(w'.run_constrained) =
                  AsSet(m.run_constrained) \cup build_rx["strong_constrains"]
                  \cup (IF native /\ ~m.noarch /\ m.build_is_host
                        THEN build_rx["weak_constrains"] ELSE none)
            /\ AsSet(w'.host_req) =
                  AsSet(m.host)
                  \cup (IF m.is_cross \/ (~m.noarch /\ ~m.build_is_host)
                        THEN build_rx["strong"] ELSE none)
            /\ AsSet(w'.run_req) =
                  AsSet(m.run)
                  \cup (IF ~m.noarch THEN build_rx["strong"] ELSE none)
                  \cup (IF native /\ m.noarch /\ m.build_is_host
                        THEN build_rx["noarch"] ELSE none)
                  \cup (IF native /\ ~m.noarch /\ m.build_is_host
                        THEN build_rx["weak"] ELSE none)]_vars

\* C27 witness: the BUILD solve of a native output that is not noarch and
\* whose build is host has just returned run exports in all five buckets;
\* the run requirements hold weak exports and the host requirements are
\* the declared ones
C27_Witness ==
    /\ Len(Visits) >= 1 /\ w.pc = "host" /\ ~w.killed
    /\ LET v == Visits[Len(Visits)]
           m == inp.metas[w.oi]
       IN /\ v.stage = "build" /\ v.solved /\ v.success /\ v.oi = w.oi /\ v.vi = w.vi
          /\ ~m.is_cross /\ ~m.noarch /\ m.build_is_host
          /\ \A b \in BucketNames : v.rx[b] # {}
          /\ v.rx["weak"] \subseteq AsSet(w.run_req)
          /\ ~(v.rx["weak"] \subseteq AsSet(m.run))
          /\ v.rx["weak_constrains"] \subseteq AsSet(w.run_constrained)
          /\ AsSet(w.host_req) = AsSet(m.host)

\* C28: after a HOST solve, with host_rx the run exports it returned and
\* run_req read as a set: for a cross-compiling output run_req is what it
\* was plus noarch when the output is noarch, plus weak and strong when it
\* is not; for an output that is not cross-compiling run_req is what it was.
C28_HostRunExportsOnlyWhenCross ==
    [][SolvedStep("host") =>
         LET m == inp.metas[w.oi]
             host_rx == hist'.visits[Len(hist'.visits)].rx
         IN AsSet(w'.run_req) =
               IF ~m.is_cross THEN AsSet(w.run_req)
               ELSE IF m.noarch THEN AsSet(w.run_req) \cup host_rx["noarch"]
               ELSE AsSet(w.run_req) \cup host_rx["weak"] \cup host_rx["strong"]]_vars

\* the other case: the HOST solve of an output that is not cross-compiling
\* and not noarch has just returned weak and strong run exports, and none
\* of the weak ones is among the run requirements
NativeHostSolveSeen ==
    /\ Len(Visits) >= 1 /\ w.pc = "run" /\ ~w.killed
    /\ LET v == Visits[Len(Visits)]
           m == inp.metas[w.oi]
       IN /\ v.stage = "host" /\ v.solved /\ v.success /\ v.oi = w.oi /\ v.vi = w.vi
          /\ ~m.is_cross /\ ~m.noarch
          /\ v.rx["weak"] # {} /\ v.rx["strong"] # {}
          /\ v.rx["weak"] \cap AsSet(w.run_req) = {}

\* C28 witness: the HOST solve of a cross-compiling output that is not
\* noarch has just returned weak and strong run exports, and the run
\* requirements hold them
C28_Witness ==
    /\ Len(Visits) >= 1 /\ w.pc = "run" /\ ~w.killed
    /\ LET v == Visits[Len(Visits)]
           m == inp.metas[w.oi]
       IN /\ v.stage = "host" /\ v.solved /\ v.success /\ v.oi = w.oi /\ v.vi = w.vi
          /\ m.is_cross /\ ~m.noarch
          /\ v.rx["weak"] # {} /\ v.rx["strong"] # {}
          /\ v.rx["weak"] \cup v.rx["strong"] \subseteq AsSet(w.run_req)
          /\ ~(v.rx["weak"] \subseteq AsSet(m.run))

\* C29: no solve of the history, at the BUILD, HOST, RUN or TEST stage, was
\* given a spec whose package name is the name of an output of the
\* rendered recipe, whether the recipe declares the requirement or a run
\* export of an earlier stage brought it in.
C29_NoOutputNameInJobs ==
    \A k \in 1..Len(Visits) :
        Visits[k].solved =>
            \A i \in 1..Len(Visits[k].specs) : SpecName(Visits[k].specs[i]) \notin OutNames

\* C29 witness: the BUILD environment of a native output exports the
\* output itself among its strong run exports, which the stage adds to the
\* host and run requirements; the HOST and RUN solves that follow were
\* given the other requirements and not the output
C29_Witness ==
    \E k \in 1..Len(Visits) :
        /\ k + 2 <= Len(Visits)
        /\ LET b == Visits[k]
               h == Visits[k+1]
               r == Visits[k+2]
               m == inp.metas[b.oi]
           IN /\ b.stage = "build" /\ b.solved /\ b.success
              /\ ~m.is_cross /\ ~m.noarch /\ ~m.build_is_host
              /\ \E e \in b.rx["strong"] : SpecName(e) \in OutNames
              /\ h.stage = "host" /\ h.solved /\ h.oi = b.oi /\ h.vi = b.vi
              /\ r.stage = "run" /\ r.solved /\ r.oi = b.oi /\ r.vi = b.vi
              /\ h.specs # <<>> /\ r.specs # <<>>
              /\ \A i \in 1..Len(h.specs) : SpecName(h.specs[i]) \notin OutNames
              /\ \A i \in 1..Len(r.specs) : SpecName(r.specs[i]) \notin OutNames

\* C30: the constraints given to the RUN and TEST solves hold no entry
\* whose package name is the name of an output of the rendered recipe.
C30_NoOutputNameInConstraints ==
    \A k \in 1..Len(Visits) :
        (Visits[k].solved /\ Visits[k].stage \in {"run", "test"}) =>
            \A i \in 1..Len(Visits[k].constraints) :
                SpecName(Visits[k].constraints[i]) \notin OutNames

\* the RUN entry of the history that precedes the TEST entry k of the same
\* output of the same variant
RunBefore(k) == Visits[k-1]

\* C31: the specs of a TEST solve are the declared test/requires and
\* test/requirements entries followed by the run requirements as the RUN
\* stage left them (the specs of the RUN solve when there was one, nothing
\* otherwise), output names stripped; the constraints of the TEST stage are
\* those of the RUN stage; and the constraints of the RUN stage are the
\* run_constrained list with the pins applied, whether the RUN solve was
\* invoked or not.
C31_TestSpecsAndConstraintsFollowRun ==
    /\ [](\A k \in 1..Len(Visits) :
            Visits[k].stage = "test" =>
               LET t == Visits[k]
                   r == RunBefore(k)
                   m == inp.metas[t.oi]
               IN /\ r.stage = "run" /\ r.oi = t.oi /\ r.vi = t.vi
                  /\ t.constraints = r.constraints
                  /\ t.solved =>
                        t.specs = remove_reqs_by_name(
                                      m.test_requires \o m.test_requirements
                                         \o (IF r.solved THEN r.specs ELSE <<>>),
                                      OutNames))
    /\ [][(StageStep /\ w.pc = "run") =>
            LET v == hist'.visits[Len(hist'.visits)]
                m == inp.metas[w.oi]
            IN /\ v.constraints = apply_pins(w.run_constrained, w.host_req, w.build_req,
                                             OutNames, m)
               /\ v.solved =>
                     v.specs = remove_reqs_by_name(
                                   apply_pins(w.run_req, w.host_req, w.build_req, OutNames, m),
                                   OutNames)]_vars

\* C31 witness: an output without run requirements whose run_constrained
\* entry on cr was pinned to the build environment: the RUN solve was not
\* invoked, and the TEST solve ran on the declared test requirements with
\* the pinned constraint
C31_Witness ==
    \E k \in 2..Len(Visits) :
        /\ Visits[k].stage = "test" /\ Visits[k].solved
        /\ Visits[k-1].stage = "run" /\ ~Visits[k-1].solved
        /\ <<"cr">> \in AsSet(inp.metas[Visits[k].oi].run_constrained)
        /\ <<"cr", ">=1,<2">> \in AsSet(Visits[k].constraints)
        /\ <<"cr">> \notin AsSet(Visits[k].constraints)
        /\ Visits[k].specs = inp.metas[Visits[k].oi].test_requires

\* the other case: the RUN solve was invoked on pinned run requirements and
\* the TEST solve was given them after the declared test requirements
PinnedRunReachesTest ==
    \E k \in 2..Len(Visits) :
        /\ Visits[k].stage = "test" /\ Visits[k].solved
        /\ Visits[k-1].stage = "run" /\ Visits[k-1].solved
        /\ <<"cr", ">=1,<2">> \in AsSet(Visits[k-1].specs)
        /\ inp.metas[Visits[k].oi].test_requires # <<>>
        /\ Len(Visits[k].specs) > Len(inp.metas[Visits[k].oi].test_requires)

\* C32: from the pinning step on, no list used by a solve holds a
\* requirement on a name of PROBLEMATIC_REQS: not the specs of a RUN solve,
\* not the run_constrained constraints of the RUN and TEST stages, not the
\* specs of a TEST solve.
C32_NoProblematicReqAfterPinning ==
    \A k \in 1..Len(Visits) :
        Visits[k].stage \in {"run", "test"} =>
            /\ ReqNames(Visits[k].constraints) \cap PROBLEMATIC_REQS = {}
            /\ Visits[k].solved => ReqNames(Visits[k].specs) \cap PROBLEMATIC_REQS = {}

\* what the channel data of an environment says about its file
CdSays(env) ==
    LET name == env.filename[1]
        ver == env.filename[2]
        packages == env.cd.packages
    IN IF packages = None THEN "no packages key"
       ELSE IF name \notin DOMAIN packages[1] THEN "name not listed"
       ELSE IF packages[1][name].run_exports = None THEN "no run_exports key"
       ELSE IF ver \notin packages[1][name].run_exports[1] THEN "version not listed"
       ELSE "version listed"

\* C33: in a run of get_run_exports' body that returns, with nothing from
\* run_exports.json for the file, conda-forge-metadata and the download are
\* left out exactly when the channel data lists the package name with a
\* run_exports mapping that lacks the version; when the channel data has no
\* packages key, no entry for the name or no run_exports key for it, they
\* are asked in turn and their answer, if any, is the record returned.
C33_ShortCircuitOnlyOnListedNameWithoutVersion ==
    (fx.fn = "rx" /\ fx.last.key = "target" /\ ~fx.last.hit /\ fx.last.raised = ""
        /\ fx.last.env.json = NoAnswer) =>
       LET env == fx.last.env
           skipped == "info" \notin Range(fx.last.queried)
       IN /\ skipped <=> CdSays(env) = "version not listed"
          /\ skipped => fx.last.record = DEFAULT_RUN_EXPORTS
          /\ CdSays(env) \in {"no packages key", "name not listed", "no run_exports key"} =>
                /\ fx.last.queried[2] = "info"
                /\ env.info.st = "ok" =>
                      fx.last.record = _convert_run_exports_to_canonical_form(env.info.val)
                /\ env.info.st # "ok" => fx.last.queried = <<"json", "info", "download">>
                /\ (env.info.st # "ok" /\ env.download.st = "ok") =>
                      fx.last.record = _convert_run_exports_to_canonical_form(env.download.val)

\* C33 witness: run_exports.json had nothing for the file and the channel
\* data does not list the package name: conda-forge-metadata was asked and
\* its run exports were returned
C33_Witness ==
    /\ fx.fn = "rx" /\ fx.last.key = "target" /\ ~fx.last.hit /\ fx.last.raised = ""
    /\ fx.last.env.json = NoAnswer
    /\ CdSays(fx.last.env) = "name not listed"
    /\ fx.last.queried = <<"json", "info">>
    /\ fx.last.record["weak"] = {<<"a2">>}

\* the short-circuit itself: the name is listed without the version and
\* neither conda-forge-metadata nor the download was asked
ShortCircuitTaken ==
    /\ fx.fn = "rx" /\ fx.last.key = "target" /\ ~fx.last.hit /\ fx.last.raised = ""
    /\ fx.last.env.json = NoAnswer
    /\ CdSays(fx.last.env) = "version not listed"
    /\ fx.last.queried = <<"json">>
    /\ fx.last.env.info.st = "ok"

\* C34: once the loop over the config files has taken up a file, the
\* platform is the text of its name before the first underscore and the
\* arch is the second underscore-separated token when that is one of 32,
\* aarch64, ppc64le, armv7l, arm64, and 64 otherwise, a name without
\* underscore included.
C34_PlatformAndArchOfEveryFileName ==
    (w.pc \in {"build", "host", "run", "test", "vend", "exc"} /\ w.vi \in 1..Len(inp.cbcs)) =>
        LET _parts == SplitTok(inp.cbcs[w.vi], "_")
        IN /\ w.platform = _parts[1]
           /\ w.arch = IF Len(_parts) >= 2 /\ _parts[2] \in NonDefaultArchs
                       THEN _parts[2] ELSE <<"64">>

\* the timeout of the loop over the config files was found exceeded
LoopTimedOut == ~WorkerMode /\ hist.timedOut

\* C35: when _is_recipe_solvable is given the timeout and finds it exceeded
\* at the start of an iteration, it returns (True, [], {}) whatever the
\* variants before gave, and takes up no further config file: nothing is
\* rendered and no stage is gone through afterwards.
C35_LoopTimeoutDropsEarlierVariants ==
    /\ [](LoopTimedOut =>
            /\ w.ret = Some(Result(TRUE, <<>>, EmptyDict))
            /\ Returned => ParentResult = Result(TRUE, <<>>, EmptyDict))
    /\ [][LoopTimedOut =>
            /\ hist'.visits = hist.visits /\ hist'.renders = hist.renders
            /\ w'.vi = w.vi /\ w'.ret = w.ret]_vars

\* C35 witness: the first of two variants was processed and found
\* unsolvable, with errors; the timeout was found exceeded before the second
\* and the call returned (True, [], {})
C35_Witness ==
    /\ LoopTimedOut /\ Returned
    /\ ParentResult = Result(TRUE, <<>>, EmptyDict)
    /\ w.vi = 2 /\ Len(inp.cbcs) = 2
    /\ ~w.solvable /\ w.errors # <<>>
    /\ \E k \in 1..Len(Visits) : FailedSolve(Visits[k])
    /\ \A k \in 1..Len(Visits) : Visits[k].vi = 1

\* what a solve with the arguments of the last call gives on a MambaSolver
\* that made no call before: the outcomes (verdict, solution set, exception)
FreshOutcomes ==
    LET Outcomes(S) ==
            {[raised |-> o.raised, success |-> o.success,
              solution |-> IF o.solution = None THEN {} ELSE Range(o.solution[1])]
             : o \in S}
    IN Outcomes(MambaSolve(EmptyCache, call.platform, call.specs,
                           call.get_run_exports, call.ignore_run_exports_from,
                           call.ignore_run_exports, call.constraints))

\* C36: the verdict and the solution of a solve call are the ones its
\* arguments and the platform alone give, whatever was solved on the object
\* before, and they are the same for both backends: every call, first or
\* later, mamba or rattler, ends as a MambaSolver without history ends on
\* the same arguments.
C36_SolveDependsOnArgumentsAlone ==
    (CallDone /\ CallSpecsWellFormed) =>
        [raised |-> call.raised, success |-> call.success,
         solution |-> CallSolution] \in FreshOutcomes

\* C37: the record the cache of get_run_exports holds for an artifact is the
\* one the sources gave for it: no solve, whatever it ignores, changes it.
C37_CachedRecordNeverAltered ==
    \A fn \in PkgIds :
        rxCache[fn] # None => rxCache[fn][1] = SourceRunExports(fn)

\* the run exports the BUILD and HOST solves of output oi of variant vi
\* returned, bucket by bucket
StageExports(vi, oi) ==
    [b \in BucketNames |->
        UNION {Visits[k].rx[b] : k \in {x \in 1..Len(Visits) :
                                           /\ Visits[x].vi = vi /\ Visits[x].oi = oi
                                           /\ Visits[x].stage \in {"build", "host"}}}]

\* C38: for a noarch output, the run requirements that reach pinning hold
\* only declared run requirements and entries of the noarch buckets of its
\* BUILD and HOST run exports, so an entry that is only in a weak or strong
\* bucket is never among them, and the RUN solve is given no other name.
C38_NoarchRunReqOnlyNoarchBuckets ==
    /\ (w.pc = "run" /\ inp.metas[w.oi].noarch) =>
          LET rx == StageExports(w.vi, w.oi)
              declared == AsSet(inp.metas[w.oi].run)
          IN /\ AsSet(w.run_req) \subseteq declared \cup rx["noarch"]
             /\ \A e \in (rx["weak"] \cup rx["strong"]) \ (declared \cup rx["noarch"]) :
                   e \notin AsSet(w.run_req)
    /\ \A k \in 1..Len(Visits) :
          (Visits[k].stage = "run" /\ inp.metas[Visits[k].oi].noarch) =>
              ReqNames(Visits[k].specs) \subseteq
                  {SpecName(e) : e \in AsSet(inp.metas[Visits[k].oi].run)
                                       \cup StageExports(Visits[k].vi, Visits[k].oi)["noarch"]}

\* C38 witness: a noarch output whose BUILD or HOST solve returned weak,
\* strong and noarch run exports is about to pin its run requirements: they
\* hold the noarch export, which the recipe does not declare, and none of
\* the weak and strong ones
C38_Witness ==
    /\ w.pc = "run" /\ ~w.killed /\ inp.metas[w.oi].noarch
    /\ LET rx == StageExports(w.vi, w.oi)
           declared == AsSet(inp.metas[w.oi].run)
       IN /\ rx["weak"] # {} /\ rx["strong"] # {}
          /\ rx["noarch"] \ declared # {}
          /\ rx["noarch"] \subseteq AsSet(w.run_req)
          /\ (rx["weak"] \cup rx["strong"]) \cap AsSet(w.run_req) = {}

\* the same for a cross-compiling noarch output, whose noarch exports come
\* from the HOST solve
CrossNoarchRunReq ==
    /\ C38_Witness
    /\ inp.metas[w.oi].is_cross

\* the worker's computation ended in an exception
WorkerRaised == w.exc # ""

\* C39: in worker mode the caller never gets an exception of the
\* computation: an exception the worker sent is received as
\* (False, [repr(exception)], {}), and that is the result returned unless
\* the poll had timed out before anything was sent. In in-process mode the
\* exception of the computation is what the caller gets, and no result.
C39_ExceptionBecomesResultOnlyInWorkerMode ==
    /\ WorkerMode =>
          /\ parent.pc # "raised" /\ parent.raised = ""
          /\ (Returned /\ WorkerRaised /\ ~hist.timedOut) =>
                ParentResult = Result(FALSE, << <<"repr", w.exc>> >>, EmptyDict)
          /\ (Returned /\ ParentResult.errors = << <<"repr", w.exc>> >>) =>
                WorkerRaised /\ ~ParentResult.solvable
    /\ (~WorkerMode /\ WorkerRaised /\ w.pc = "exited") =>
          /\ parent.pc = "raised"
          /\ parent.raised = w.exc
          /\ parent.res = None

\* C39 witness: a worker whose RUN solve raised RuntimeError on a spec with
\* a build and no version, after the BUILD or HOST solve of the output; the
\* caller got (False, [repr(RuntimeError)], {})
C39_Witness ==
    /\ WorkerMode /\ Returned /\ WorkerRaised /\ ~hist.timedOut
    /\ w.exc = "RuntimeError"
    /\ ParentResult = Result(FALSE, << <<"repr", "RuntimeError">> >>, EmptyDict)
    /\ Len(Visits) >= 2
    /\ Visits[Len(Visits)].stage = "run" /\ Visits[Len(Visits)].raised = "RuntimeError"

\* the same exception with a falsy timeout: it reaches the caller
InProcessRaised ==
    /\ ~inp.timeout /\ ~inp.direct /\ inp.solver = "mamba"
    /\ parent.pc = "raised" /\ parent.raised = "RuntimeError" /\ parent.res = None
    /\ Visits[Len(Visits)].stage = "run" /\ Visits[Len(Visits)].raised = "RuntimeError"

\* C40: when an in-process call has returned, the list the caller passed as
\* additional_channels holds what it held before the call and
\* CONDA_OVERRIDE_GLIBC is set, or not set, as it was before the call.
C40_CallerStateAsFound ==
    (~WorkerMode /\ Returned) =>
        /\ parent.additional_channels = inp.additional_channels
        /\ parent.environ = inp.environ
====
